---- MODULE Spec2Model ----
(***************************************************************************)
(* Flashcards application: DeckManager (deck registry and its observer     *)
(* channel), UIManager (view coordination, study mode, persistence) and    *)
(* AccessibleModal (focus trap), modelled from src/flashcards-app/app.js   *)
(* and the storage module.                                                 *)
(*                                                                         *)
(* Strings are sequences of one-character strings so that trim() can be    *)
(* computed.  JavaScript objects that are shared by reference (decks)      *)
(* carry an identity field "obj", so that a copy of an array that shares   *)
(* its elements is distinguishable from a copy that does not.              *)
(***************************************************************************)
EXTENDS Integers, Sequences, FiniteSets, TLC

(***************************************************************************)
(* Bounds of the model.                                                    *)
(***************************************************************************)
MaxDeckId == 2
MaxDecks == 2
MaxCards == 1
MaxClock == 0
MaxRnd == 1
MaxObservers == 3
MaxStudyCards == 3
MaxTimers == 2
MaxSearchCalls == 3
MaxLoads == 2
MaxLoadClock == 1
MaxGridListeners == 4
\* the cards there may be while the card grid is followed
MaxShownCards == 4

\* null, among integer ids (app.js: selectedDeckId = null)
NULL == -1

\* an argument that was not supplied (undefined), or a cancelled prompt
Undefined == <<"undefined">>

VARIABLES
  decks,            \* DeckManager.decks
  nextId,           \* DeckManager.nextId
  selectedDeckId,   \* DeckManager.selectedDeckId
  observers,        \* DeckManager.observers
  currentCardIndex, \* UIManager.currentCardIndex
  cardFlipState,    \* UIManager.cardFlipState (Map cardId -> boolean)
  studyMode,        \* UIManager.studyMode
  studyCardDom,     \* the .study-mode-card element in #cards-container
  studyKeyListeners,\* keydown listeners of study mode attached to document
  slot,             \* localStorage[flashcards_app_state]
  now,              \* Date.now()
  nextObj,          \* next object identity (allocation counter)
  callerView,       \* the array a caller obtained from getAllDecks()
  createdIds,       \* history: ids returned by createDeck, in order
  lastOp,           \* history: the last operation, its outcome and deliveries
  navHist,          \* history: the last study navigation steps
  lastStudy,        \* the last study operation and the alert() it showed
  everCurrent,      \* history: cards that were at currentIndex since enter
  focusTrapActive,          \* AccessibleModal.focusTrapActive
  modalKeyListener,         \* handleKeyDown attached to document
  previouslyFocusedElement, \* AccessibleModal.previouslyFocusedElement
  focusableElements,        \* AccessibleModal.focusableElements
  modalDisplay,             \* modal.style.display
  activeElement,            \* document.activeElement
  pendingRestore,           \* setTimeout(() => previouslyFocusedElement.focus(), 0) not yet run
  hiddenEls,                \* elements of the modal currently hidden or disabled
  lastKey,                  \* history: the last key event handled by the modal
  restoreQueue,             \* history: what each pending restoration was scheduled for
  storageMode,      \* how localStorage behaves: "ok", "unavailable", "quota"
  lastLoad,         \* history: the last loadState() call and what it returned
  lastSave,         \* history: the last saveState() call and what it returned
  addedCards,       \* history: <<deckId, cardId>> of every card ever added
  searchTimers,     \* the pending timers that SearchManager.search() set
  debounceTimer,    \* SearchManager.debounceTimer
  searchCalls,      \* history: the calls of search(), in order
  searchLog,        \* history: the invocations of the callbacks, in order
  snapHeap,         \* the objects loadState() returned, as their holders left them
  loadLog,          \* history: the loadState() calls of a caller that keeps the results
  cardsClickListeners,  \* click listeners setupCardEventListeners() added to
                        \* #cards-container; NULL where the grid is not followed
  shownCards,       \* the ids of the card articles in #cards-container, in order
  isSearchActive,   \* UIManager.isSearchActive
  filteredCards,    \* UIManager.filteredCards
  lastClick,        \* history: the last click on a card of the grid
  pc                \* the handler being run statement by statement, and how far

regVars == <<decks, nextId, selectedDeckId, observers, slot, now, nextObj,
             callerView, createdIds, lastOp, addedCards>>
uiVars == <<currentCardIndex, cardFlipState, studyMode, studyCardDom,
            studyKeyListeners, navHist, lastStudy, everCurrent>>
trapVars == <<focusTrapActive, modalKeyListener, previouslyFocusedElement,
              focusableElements, modalDisplay, activeElement, pendingRestore,
              hiddenEls, lastKey, restoreQueue>>
storeVars == <<storageMode, lastLoad, lastSave>>
searchVars == <<searchTimers, debounceTimer, searchCalls, searchLog>>
snapVars == <<snapHeap, loadLog>>
gridVars == <<cardsClickListeners, shownCards, isSearchActive, filteredCards>>
restVars == <<snapVars, gridVars, lastClick, pc>>
vars == <<regVars, uiVars, trapVars, storeVars, searchVars, restVars>>

(***************************************************************************)
(* Helpers on sequences and maps.                                          *)
(***************************************************************************)
Range(s) == {s[i] : i \in DOMAIN s}

Min(a, b) == IF a < b THEN a ELSE b

RemoveAt(s, i) == SubSeq(s, 1, i - 1) \o SubSeq(s, i + 1, Len(s))

\* Array.prototype.findIndex, 1-based; 0 when absent
FindIndex(s, P(_)) ==
  IF \E i \in DOMAIN s : P(s[i])
  THEN CHOOSE i \in DOMAIN s : P(s[i]) /\ \A j \in 1..(i - 1) : ~P(s[j])
  ELSE 0

EmptyMap == <<>>
MapHas(m, k) == k \in DOMAIN m
MapGet(m, k) == IF k \in DOMAIN m THEN m[k] ELSE FALSE
MapSet(m, k, v) == [x \in (DOMAIN m) \cup {k} |-> IF x = k THEN v ELSE m[x]]
MapDelete(m, k) == [x \in (DOMAIN m) \ {k} |-> m[x]]

\* the % operator of JavaScript (the sign follows the dividend)
JsMod(a, n) == IF a >= 0 THEN a % n ELSE 0 - ((0 - a) % n)

\* String.prototype.trim
RECURSIVE TrimLeft(_)
TrimLeft(s) == IF s # <<>> /\ Head(s) = " " THEN TrimLeft(Tail(s)) ELSE s
RECURSIVE TrimRight(_)
TrimRight(s) ==
  IF s # <<>> /\ s[Len(s)] = " " THEN TrimRight(SubSeq(s, 1, Len(s) - 1)) ELSE s
Trim(s) == TrimRight(TrimLeft(s))

\* !name || name.trim() === ""
NameIsEmpty(name) == name = Undefined \/ name = <<>> \/ Trim(name) = <<>>

(***************************************************************************)
(* Inputs.                                                                 *)
(***************************************************************************)
NameInputs == {Undefined, <<>>, <<" ">>, <<" ", "a">>}
RenameInputs == {Undefined, <<" ">>, <<"b", " ">>}
PromptInputs == {Undefined, <<" ">>, <<"r", " ">>}
DeckIdInputs == 0..MaxDeckId
\* the ids of the cards there are, and one id no card has
UnknownCardId == <<0, 0>>
CardIdInputs(ds) ==
  {ds[i].cards[c].id : <<i, c>> \in {x \in (DOMAIN ds) \X (1..(MaxCards + MaxStudyCards)) :
                                      x[2] \in DOMAIN ds[x[1]].cards}}
    \cup {UnknownCardId}
Callbacks == {"obsA", "obsThrow"}

(***************************************************************************)
(* DeckManager                                                             *)
(***************************************************************************)
\* a null among the elements of decks (a stored array can hold one)
NullDeck == [json |-> "null"]
IsNullDeck(d) == "json" \in DOMAIN d
HasNullDeck(ds) == \E i \in DOMAIN ds : IsNullDeck(ds[i])

\* the ids of the decks; NULL stands for an id that is not an integer
\* (missing, null, a string)
DeckIds(ds) == {ds[i].id : i \in {j \in DOMAIN ds : ~IsNullDeck(ds[j])}}
DeckIndex(ds, id) == FindIndex(ds, LAMBDA d : d.id = id)
HasDeck(ds, id) == DeckIndex(ds, id) # 0
GetDeckById(ds, id) == ds[DeckIndex(ds, id)]
CardIndex(cs, cid) == FindIndex(cs, LAMBDA c : c.id = cid)

\* getSelectedDeck(): selectedDeckId ? getDeckById(selectedDeckId) : null
\* (0 is falsy); the result is the index in decks, 0 for null/undefined
SelectedDeckIndex(ds, sel) ==
  IF sel = NULL \/ sel = 0 THEN 0 ELSE DeckIndex(ds, sel)


(***************************************************************************)
(* StorageManager (storage module)                                         *)
(***************************************************************************)
StorageVersion == 1

\* what localStorage holds under the key: nothing, text that is not JSON, a
\* JSON value that is not an object, or an object (kind "state").  An object
\* carries the JSON type of its decks and selectedDeckId fields: decksType is
\* "array" or "other"; selType is "null", "int", "float" (a number that is
\* not an integer) or "string".  padding is the length of the text the
\* object holds besides the fields spelled out here.
NoItem == [kind |-> "none"]
Garbage == [kind |-> "garbage"]
JsonScalar == [kind |-> "scalar"]

\* what JSON.stringify keeps of a deck: its fields, not its identity
PlainDeck(d) ==
  IF IsNullDeck(d) THEN d ELSE [id |-> d.id, name |-> d.name, cards |-> d.cards]
PlainDecks(ds) == [i \in DOMAIN ds |-> PlainDeck(ds[i])]

\* how localStorage behaves
StorageModes == {"ok", "unavailable", "quota"}

\* isLocalStorageAvailable(): the test write of a short key succeeds
IsLocalStorageAvailable(mode) == mode # "unavailable"

GetDefaultState(t) ==
  [kind |-> "state", version |-> StorageVersion, decksType |-> "array",
   decks |-> <<>>, selType |-> "null", selectedDeckId |-> NULL,
   searchQuery |-> <<>>, savedAt |-> t, padding |-> 0]

\* data && typeof data === "object" && Array.isArray(data.decks) &&
\* (data.selectedDeckId === null || typeof data.selectedDeckId === "number")
IsValidStateStructure(data) ==
  /\ data.kind = "state"
  /\ data.decksType = "array"
  /\ data.selType \in {"null", "int", "float"}

\* migrateToV1(data): reading deck.id of a null element is a TypeError
MigrateToV1Throws(data) == \E i \in DOMAIN data.decks : IsNullDeck(data.decks[i])

\* Array.isArray(deck.cards): a stored deck whose cards is not an array has
\* no cards field in the model (a value of another JSON type is kept under
\* cardsJson)
HasCardsArray(d) == "cards" \in DOMAIN d

MigrateToV1(data) ==
  [data EXCEPT !.decks =
     [i \in DOMAIN data.decks |->
        [id |-> data.decks[i].id,
         name |-> IF data.decks[i].name = <<>> THEN <<"U">> ELSE data.decks[i].name,
         cards |-> IF HasCardsArray(data.decks[i]) THEN data.decks[i].cards ELSE <<>>]],
   !.version = 1]

\* fromVersion = data.version || 0; the steps fromVersion+1 .. this.version
MigrationRuns(data) ==
  (IF data.version = NULL THEN 0 ELSE data.version) + 1 <= StorageVersion

MigrateState(data) ==
  LET m == IF MigrationRuns(data) THEN MigrateToV1(data) ELSE data
  IN [m EXCEPT !.version = StorageVersion]

\* the body of the try block of loadState(): a value, or an exception
LoadStateBody(mode, item, t) ==
  IF ~IsLocalStorageAvailable(mode)
  THEN [threw |-> FALSE, value |-> GetDefaultState(t)]
  ELSE IF item.kind = "none" THEN [threw |-> FALSE, value |-> GetDefaultState(t)]
  ELSE IF item.kind = "garbage" THEN [threw |-> FALSE, value |-> GetDefaultState(t)]
  ELSE IF ~IsValidStateStructure(item)
  THEN [threw |-> FALSE, value |-> GetDefaultState(t)]
  ELSE IF item.version # StorageVersion
  THEN (IF MigrationRuns(item) /\ MigrateToV1Throws(item)
        THEN [threw |-> TRUE, value |-> item]
        ELSE [threw |-> FALSE, value |-> MigrateState(item)])
  ELSE [threw |-> FALSE, value |-> item]

\* loadState(): catch (error) { return this.getDefaultState(); }
LoadState_NoCatch(mode, item, t) ==
  LET b == LoadStateBody(mode, item, t)
  IN [raised |-> b.threw,
      value |-> IF b.threw THEN GetDefaultState(t) ELSE b.value]
LoadState(mode, item, t) ==
  LET b == LoadStateBody(mode, item, t)
  IN [raised |-> FALSE,
      value |-> IF b.threw THEN GetDefaultState(t) ELSE b.value]

\* the object loadState() returns is made by the call (JSON.parse of a fresh
\* text, or the literal of getDefaultState()); heap holds the objects of the
\* earlier calls
ReturnedObject_Memoized(heap) == IF heap = <<>> THEN 1 ELSE Len(heap)
ReturnedObject(heap) == Len(heap) + 1

\* savePersistedState(): the object handed to saveState()
SavePersistedState(ds, sel, query) ==
  [kind |-> "state", version |-> StorageVersion, decksType |-> "array",
   decks |-> PlainDecks(ds),
   selType |-> IF sel = NULL THEN "null" ELSE "int", selectedDeckId |-> sel,
   searchQuery |-> query, savedAt |-> 0, padding |-> 0]

\* { ...state, version: this.version, savedAt: new Date().toISOString() }
StateWithVersion(state, t) ==
  [state EXCEPT !.version = StorageVersion, !.savedAt = t]

\* serialized.length, counted roughly: the text of the decks and the query,
\* the punctuation around them, and the padding
SizeCeiling == 5 * 1024 * 1024
CardLength(c) == 40 + Len(c.front) + Len(c.back)
DeckLength(d) ==
  IF IsNullDeck(d) THEN 4
  ELSE 30 + Len(d.name)
       + (IF Len(d.cards) = 0 THEN 0 ELSE CardLength(d.cards[1]) * Len(d.cards))
SerializedLength(state) ==
  80 + Len(state.searchQuery) + state.padding
  + (IF Len(state.decks) = 0 THEN 0
     ELSE DeckLength(state.decks[1]) * Len(state.decks))

\* clearState(): removeItem when the storage is available
ClearState_KeepsItem(mode, old) == old
ClearState(mode, old) == IF IsLocalStorageAvailable(mode) THEN NoItem ELSE old

\* saveState(state): what it returns and what the slot holds afterwards
SaveState_TrueOnQuota(mode, old, state, t) ==
  IF ~IsLocalStorageAvailable(mode)
  THEN [raised |-> FALSE, ret |-> FALSE, slot |-> old]
  ELSE LET sv == StateWithVersion(state, t)
       IN IF ~IsValidStateStructure(sv)
          THEN [raised |-> FALSE, ret |-> FALSE, slot |-> old]
          ELSE IF SerializedLength(sv) > SizeCeiling
          THEN [raised |-> FALSE, ret |-> FALSE, slot |-> old]
          ELSE IF mode = "quota"
          THEN [raised |-> FALSE, ret |-> TRUE, slot |-> ClearState(mode, old)]
          ELSE [raised |-> FALSE, ret |-> TRUE, slot |-> sv]
SaveState(mode, old, state, t) ==
  IF ~IsLocalStorageAvailable(mode)
  THEN [raised |-> FALSE, ret |-> FALSE, slot |-> old]
  ELSE LET sv == StateWithVersion(state, t)
       IN IF ~IsValidStateStructure(sv)
          THEN [raised |-> FALSE, ret |-> FALSE, slot |-> old]
          ELSE IF SerializedLength(sv) > SizeCeiling
          THEN [raised |-> FALSE, ret |-> FALSE, slot |-> old]
          ELSE IF mode = "quota"
          THEN [raised |-> FALSE, ret |-> FALSE, slot |-> ClearState(mode, old)]
          ELSE [raised |-> FALSE, ret |-> TRUE, slot |-> sv]

NoLoad == [done |-> FALSE, raised |-> FALSE, mode |-> "ok", item |-> NoItem,
           value |-> NoItem, t |-> 0]
NoSave == [done |-> FALSE, raised |-> FALSE, ret |-> FALSE, mode |-> "ok",
           state |-> NoItem, before |-> NoItem, after |-> NoItem, t |-> 0]

(***************************************************************************)
(* SearchManager (storage module)                                          *)
(***************************************************************************)
\* StorageConfig.DEBOUNCE_DELAY, in milliseconds
DebounceDelay == 300

\* String.prototype.toLowerCase over the letters of the model
ToLowerChar(ch) == IF ch = "A" THEN "a" ELSE IF ch = "B" THEN "b" ELSE ch
ToLowerCase(str) == [i \in DOMAIN str |-> ToLowerChar(str[i])]

\* String.prototype.includes
Includes(str, part) ==
  \E i \in 0..(Len(str) - Len(part)) : SubSeq(str, i + 1, i + Len(part)) = part

\* !query || query.trim() === ""
QueryIsBlank(query) == query = Undefined \/ Trim(query) = <<>>

\* const normalizedQuery = query.toLowerCase().trim()
NormalizedQuery_NoFold(query) == Trim(query)
NormalizedQuery(query) == Trim(ToLowerCase(query))

\* filterCards(cards, query)
CardMatches(card, q) ==
  \/ Includes(ToLowerCase(card.front), q)
  \/ Includes(ToLowerCase(card.back), q)

FilterCards(cards, query) ==
  SelectSeq(cards, LAMBDA card : CardMatches(card, NormalizedQuery(query)))

\* what the timer callback of search(cards, query, callback) hands over
SearchResult(cards, query) ==
  IF QueryIsBlank(query)
  THEN [cards |-> cards, count |-> Len(cards)]
  ELSE [cards |-> FilterCards(cards, query),
        count |-> Len(FilterCards(cards, query))]

\* what the timer callback leaves of the array it was given: filterCards
\* builds the lower-cased texts in locals and filter() returns a new array
InputAfterSearch_FoldInPlace(cards, query) ==
  IF QueryIsBlank(query) THEN cards
  ELSE [i \in DOMAIN cards |->
          [cards[i] EXCEPT !.front = ToLowerCase(@), !.back = ToLowerCase(@)]]
InputAfterSearch(cards, query) == cards

\* clearTimeout(this.debounceTimer)
ClearTimeout_Ignored(timers, id) == timers
ClearTimeout(timers, id) == {tm \in timers : tm.id # id}

\* search(cards, query, callback): the callback of this call is the
\* Len(searchCalls)+1-th one, and so is its timer
SearchOf(cards, query, deck) ==
  LET cb == Len(searchCalls) + 1
  IN /\ cb <= MaxSearchCalls
     /\ searchTimers' = ClearTimeout(searchTimers, debounceTimer)
                          \cup {[id |-> cb, remaining |-> DebounceDelay]}
     /\ debounceTimer' = cb
     /\ searchCalls' = Append(searchCalls,
                              [cards |-> cards, query |-> query,
                               pending |-> {tm.id : tm \in searchTimers},
                               deck |-> deck])
     /\ UNCHANGED searchLog

Search(cards, query) == SearchOf(cards, query, NULL)

\* a pending timer of search() runs: the callback gets the result; cards is
\* what the array given to search() holds by now
SearchTimerFiresOn(id, cards) ==
  LET call == searchCalls[id]
      r == SearchResult(cards, call.query)
  IN /\ [id |-> id, remaining |-> 0] \in searchTimers
     /\ searchTimers' = searchTimers \ {[id |-> id, remaining |-> 0]}
     /\ searchLog' = Append(searchLog,
                            [cb |-> id, cards |-> r.cards, count |-> r.count,
                             input |-> InputAfterSearch(cards, call.query)])
     /\ UNCHANGED <<debounceTimer, searchCalls>>

SearchTimerFires(id) ==
  id \in DOMAIN searchCalls /\ SearchTimerFiresOn(id, searchCalls[id].cards)

\* time passes
Elapse(ms) ==
  /\ searchTimers # {}
  /\ \E tm \in searchTimers : tm.remaining > 0
  /\ searchTimers' = {[tm EXCEPT !.remaining = IF @ > ms THEN @ - ms ELSE 0] :
                        tm \in searchTimers}
  /\ UNCHANGED <<debounceTimer, searchCalls, searchLog>>

\* the cards and the queries of the searches
SearchCards ==
  <<[id |-> <<0, 1>>, front |-> <<"A", "b">>, back |-> <<"b">>],
    [id |-> <<0, 2>>, front |-> <<"b">>, back |-> <<"a", " ">>],
    [id |-> <<0, 3>>, front |-> <<"b">>, back |-> <<"B">>]>>
SearchCardLists == {SearchCards, Tail(SearchCards)}
SearchQueries == {Undefined, <<" ">>, <<"A">>, <<"a", " ">>, <<"b">>}

(***************************************************************************)
(* DeckManager: observers                                                  *)
(***************************************************************************)
Throws(cb) == cb = "obsThrow"

\* observers.forEach(callback => callback(event, data)): an exception of a
\* callback leaves forEach, the callbacks after it are not called
NotifyObservers_LastFirst(obs, event, deck, card) ==
  LET ft == FindIndex(obs, Throws)
      n == IF ft = 0 THEN Len(obs) ELSE ft
  IN [events |-> [i \in 1..n |->
                    [to |-> obs[n + 1 - i], kind |-> event, deck |-> deck, card |-> card]],
      threw |-> ft # 0]
NotifyObservers(obs, event, deck, card) ==
  LET ft == FindIndex(obs, Throws)
      n == IF ft = 0 THEN Len(obs) ELSE ft
  IN [events |-> [i \in 1..n |->
                    [to |-> obs[i], kind |-> event, deck |-> deck, card |-> card]],
      threw |-> ft # 0]

NoCard == <<>>

(***************************************************************************)
(* UIManager: rendering and the subscription callback                      *)
(***************************************************************************)
\* renderCards(): its effect on currentCardIndex
RenderCardsIndex(ds, sel, idx) ==
  LET s == SelectedDeckIndex(ds, sel)
  IN IF s = 0 THEN idx
     ELSE IF Len(ds[s].cards) = 0 THEN 0
     ELSE IF idx >= Len(ds[s].cards) THEN 0
     ELSE idx

\* renderCards(): its effect on cardFlipState
RenderCardsFlip(ds, sel, flip) ==
  LET s == SelectedDeckIndex(ds, sel)
  IN IF s = 0 THEN flip
     ELSE IF Len(ds[s].cards) = 0 THEN EmptyMap
     ELSE flip

NoDom == [present |-> FALSE]

\* handleDeckChange(event, data): currentCardIndex
HandleDeckChangeIndex(event, ds, sel, idx) ==
  IF event = "deckSelected" THEN RenderCardsIndex(ds, sel, 0)
  ELSE RenderCardsIndex(ds, sel, idx)

\* handleDeckChange(event, data): cardFlipState
HandleDeckChangeFlip_KeepsDeleted(event, card, ds, sel, flip) ==
  IF event = "deckSelected" THEN RenderCardsFlip(ds, sel, EmptyMap)
  ELSE RenderCardsFlip(ds, sel, flip)
HandleDeckChangeFlip(event, card, ds, sel, flip) ==
  IF event = "deckSelected" THEN RenderCardsFlip(ds, sel, EmptyMap)
  ELSE IF event = "cardDeleted" THEN RenderCardsFlip(ds, sel, MapDelete(flip, card))
  ELSE RenderCardsFlip(ds, sel, flip)

\* setupCardEventListeners(): addEventListener with a new function object
SetupCardEventListeners(n) == n + 1

\* renderCards(): what it leaves in #cards-container; G holds listeners,
\* shown, active (isSearchActive) and filtered (filteredCards)
RenderCards(ds, sel, G) ==
  LET s == SelectedDeckIndex(ds, sel)
  IN IF s = 0 THEN [G EXCEPT !.shown = <<>>]
     ELSE IF Len(ds[s].cards) = 0 THEN [G EXCEPT !.shown = <<>>]
     ELSE IF G.active /\ G.filtered = <<>> THEN [G EXCEPT !.shown = <<>>]
     ELSE LET cardsToDisplay == IF G.active THEN G.filtered ELSE ds[s].cards
          IN [G EXCEPT !.shown = [k \in DOMAIN cardsToDisplay |-> cardsToDisplay[k].id],
                       !.listeners = SetupCardEventListeners(@)]

\* clearSearch()
ClearSearch(ds, sel, G) ==
  RenderCards(ds, sel, [G EXCEPT !.active = FALSE, !.filtered = <<>>])

\* handleDeckChange(event, data): the card grid
HandleDeckChangeGrid(event, ds, sel, G) ==
  IF event = "deckSelected" THEN RenderCards(ds, sel, ClearSearch(ds, sel, G))
  ELSE RenderCards(ds, sel, G)

RECURSIVE HandleDeckChangeGridN(_, _, _, _, _)
HandleDeckChangeGridN(n, event, ds, sel, G) ==
  IF n = 0 THEN G
  ELSE HandleDeckChangeGridN(n - 1, event, ds, sel,
                             HandleDeckChangeGrid(event, ds, sel, G))

NoClick == [kind |-> "none", card |-> <<>>, listeners |-> 0,
            flipBefore |-> FALSE, flipAfter |-> FALSE, requests |-> 0]

\* handleDeckChange(event, data): the cases that end in savePersistedState()
HandleDeckChangeSaves_DeckEventsOnly(event) ==
  event \in {"deckCreated", "deckDeleted", "deckUpdated", "deckSelected"}
HandleDeckChangeSaves(event) ==
  event \in {"deckCreated", "deckDeleted", "deckUpdated", "deckSelected",
             "cardAdded", "cardDeleted", "cardUpdated"}

IdleOp == [op |-> "none", result |-> "none", events |-> <<>>, sel |-> NULL,
           ids |-> {}, obs |-> <<>>, arg |-> NULL, hadSel |-> FALSE,
           invalid |-> "none"]

\* the publication step shared by the mutating operations: ds1 and sel1 are
\* the registry state at the time notifyObservers is called
Publish(opName, arg, event, ds1, sel1, deck, card, t) ==
  LET n0 == NotifyObservers(observers, event, deck, card)
      ui == FindIndex(n0.events, LAMBDA e : e.to = "ui")
      \* renderDeckList() reads deck.id of every deck: a null element throws
      \* in the view's callback, before anything is rendered or saved
      uiThrew == ui # 0 /\ HasNullDeck(ds1)
      n == IF uiThrew THEN [events |-> SubSeq(n0.events, 1, ui), threw |-> TRUE]
           ELSE n0
      uiGot == ui # 0 /\ ~uiThrew
  IN /\ lastOp' = [op |-> opName,
                   result |-> IF n.threw THEN "observerThrew" ELSE "ok",
                   events |-> n.events, sel |-> sel1, ids |-> DeckIds(ds1),
                   obs |-> observers, arg |-> arg,
                   hadSel |-> selectedDeckId = arg, invalid |-> "none"]
     /\ IF uiGot
        THEN /\ currentCardIndex' = HandleDeckChangeIndex(event, ds1, sel1, currentCardIndex)
             /\ cardFlipState' = HandleDeckChangeFlip(event, card, ds1, sel1, cardFlipState)
             /\ studyCardDom' = NoDom
             /\ slot' = IF HandleDeckChangeSaves(event)
                        THEN SaveState(storageMode, slot,
                                       SavePersistedState(ds1, sel1, <<>>), t).slot
                        ELSE slot
        ELSE UNCHANGED <<currentCardIndex, cardFlipState, studyCardDom, slot>>
     /\ now' = t

TotalCards(ds) == Cardinality({<<i, c>> \in (DOMAIN ds) \X (1..(MaxCards + MaxStudyCards)) :
                                 c \in DOMAIN ds[i].cards})

\* an operation that throws, or returns, before it changes anything; invalid
\* tells which argument of the call was invalid: "name", "id" or "none"
Fail(opName, invalid, err) ==
  /\ lastOp' = [IdleOp EXCEPT !.op = opName, !.result = err, !.invalid = invalid]
  /\ UNCHANGED <<decks, nextId, selectedDeckId, nextObj, createdIds, addedCards, slot, now,
                 currentCardIndex, cardFlipState, studyCardDom>>

Times == {t \in now..(now + 1) : t <= MaxClock}


(***************************************************************************)
(* DeckManager: operations                                                 *)
(***************************************************************************)
\* id: this.nextId++
NewDeckId_Positional(nid, ds) == Len(ds) + 1
NewDeckId(nid, ds) == nid
NextIdAfterCreate(nid) == nid + 1

CreateDeck(name) ==
  IF NameIsEmpty(name)
  THEN Fail("createDeck", "name", "ValidationError")
  ELSE /\ \/ (nextId <= MaxDeckId /\ Len(decks) < MaxDecks)
          \/ createdIds = <<>>
       /\ LET newDeck == [obj |-> nextObj, id |-> NewDeckId(nextId, decks), name |-> Trim(name),
                          cards |-> <<>>]
          IN /\ nextId' = NextIdAfterCreate(nextId)
             /\ nextObj' = nextObj + 1
             /\ decks' = Append(decks, newDeck)
             /\ createdIds' = Append(createdIds, newDeck.id)
             /\ UNCHANGED <<selectedDeckId, addedCards>>
             /\ Publish("createDeck", newDeck.id, "deckCreated", decks',
                        selectedDeckId, newDeck, NoCard, now)

UpdateDeck(id, name) ==
  LET i == DeckIndex(decks, id)
  IN IF i = 0 THEN Fail("updateDeck", "id", "NotFoundError")
     ELSE IF name # Undefined /\ NameIsEmpty(name)
     THEN Fail("updateDeck", "name", "ValidationError")
     ELSE /\ decks' = IF name = Undefined THEN decks
                      ELSE [decks EXCEPT ![i].name = Trim(name)]
          /\ UNCHANGED <<nextId, selectedDeckId, nextObj, createdIds, addedCards>>
          /\ Publish("updateDeck", id, "deckUpdated", decks', selectedDeckId,
                     decks'[i], NoCard, now)

\* if (this.selectedDeckId === id) this.selectedDeckId = null
SelectionAfterDelete_Kept(sel, id) == sel
SelectionAfterDelete(sel, id) == IF sel = id THEN NULL ELSE sel

DeleteDeck(id) ==
  LET i == DeckIndex(decks, id)
  IN IF i = 0 THEN Fail("deleteDeck", "id", "NotFoundError")
     ELSE /\ decks' = RemoveAt(decks, i)
          /\ selectedDeckId' = SelectionAfterDelete(selectedDeckId, id)
          /\ UNCHANGED <<nextId, nextObj, createdIds, addedCards>>
          /\ Publish("deleteDeck", id, "deckDeleted", decks', selectedDeckId',
                     decks[i], NoCard, now)

SelectDeck(id) ==
  LET i == DeckIndex(decks, id)
  IN IF i = 0 THEN Fail("selectDeck", "id", "NotFoundError")
     ELSE /\ selectedDeckId' = id
          /\ UNCHANGED <<decks, nextId, nextObj, createdIds, addedCards>>
          /\ Publish("selectDeck", id, "deckSelected", decks, id, decks[i],
                     NoCard, now)

\* `card-${Date.now()}-${Math.random()...}`
NewCardId(t, r) == <<t, r>>

AddCardToDeck(deckId, front, back) ==
  LET i == DeckIndex(decks, deckId)
  IN IF i = 0 THEN Fail("addCard", "id", "NotFoundError")
     ELSE /\ TotalCards(decks) < (IF cardsClickListeners = NULL THEN MaxCards
                                 ELSE MaxShownCards)
          /\ \E t \in Times, r \in 1..MaxRnd :
               LET card == [id |-> NewCardId(t, r), front |-> front, back |-> back]
               IN /\ decks' = [decks EXCEPT ![i].cards = Append(@, card)]
                  /\ addedCards' = addedCards \cup {<<deckId, card.id>>}
                  /\ UNCHANGED <<nextId, selectedDeckId, nextObj, createdIds>>
                  /\ Publish("addCard", deckId, "cardAdded", decks',
                             selectedDeckId, decks'[i], card.id, t)

DeleteCardFromDeck(deckId, cardId) ==
  LET i == DeckIndex(decks, deckId)
  IN IF i = 0 THEN Fail("deleteCard", "id", "NotFoundError")
     ELSE LET c == CardIndex(decks[i].cards, cardId)
          IN IF c = 0 THEN Fail("deleteCard", "id", "NotFoundError")
             ELSE /\ decks' = [decks EXCEPT ![i].cards = RemoveAt(@, c)]
                  /\ UNCHANGED <<nextId, selectedDeckId, nextObj, createdIds, addedCards>>
                  /\ Publish("deleteCard", deckId, "cardDeleted", decks',
                             selectedDeckId, decks'[i], cardId, now)

\* UIManager.editCard(cardId): the card update of the selected deck
EditCard(cardId, newFront, newBack) ==
  LET i == SelectedDeckIndex(decks, selectedDeckId)
      c == IF i = 0 THEN 0 ELSE CardIndex(decks[i].cards, cardId)
  IN IF i = 0 \/ c = 0 THEN Fail("updateCard", "id", "returned")
     ELSE IF newFront = Undefined \/ newBack = Undefined
     THEN Fail("updateCard", "none", "returned")
     ELSE IF Trim(newFront) = <<>> \/ Trim(newBack) = <<>>
     THEN Fail("updateCard", "none", "returned")
     ELSE /\ decks' = [decks EXCEPT ![i].cards[c].front = Trim(newFront),
                                    ![i].cards[c].back = Trim(newBack)]
          /\ UNCHANGED <<nextId, selectedDeckId, nextObj, createdIds, addedCards>>
          /\ Publish("updateCard", selectedDeckId, "cardUpdated", decks',
                     selectedDeckId, decks'[i], cardId, now)

Subscribe(cb) ==
  /\ Len(observers) < MaxObservers
  /\ observers' = Append(observers, cb)

Unsubscribe(cb) ==
  /\ cb \in Range(observers)
  /\ observers' = SelectSeq(observers, LAMBDA o : o # cb)

\* return [...this.decks]: a new array holding the same deck objects
GetAllDecks_SameArray(ds) == [array |-> "decks", items |-> [i \in DOMAIN ds |-> ds[i].obj]]
GetAllDecks(ds) == [array |-> "copy", items |-> [i \in DOMAIN ds |-> ds[i].obj]]

NoView == [array |-> "none", items |-> <<>>]


(***************************************************************************)
(* UIManager: study mode.  The operators work on a record of the fields    *)
(* they read and write: sm (studyMode), flip (cardFlipState), dom (the     *)
(* study card element), idx (currentCardIndex), ls (keydown listeners).    *)
(***************************************************************************)
NoStudy == [active |-> FALSE, deckId |-> NULL, currentIndex |-> 0,
            startTime |-> 0, cardsStudied |-> {}]

\* what a handler showed with alert(): nothing, the message of an empty
\* deck, or the summary of the session with its number of cards reviewed
NoOutput == [alert |-> "none", reviewed |-> 0]

StudyState == [sm |-> studyMode, flip |-> cardFlipState, dom |-> studyCardDom,
               idx |-> currentCardIndex, ls |-> studyKeyListeners,
               out |-> NoOutput]

\* renderStudyModeCard()
RenderStudyModeCard(S, ds, listeners) ==
  LET i == DeckIndex(ds, S.sm.deckId)
  IN IF i = 0 THEN S
     ELSE LET card == ds[i].cards[S.sm.currentIndex + 1]
          IN [S EXCEPT !.dom = [present |-> TRUE, card |-> card.id,
                                flipped |-> MapGet(S.flip, card.id),
                                listeners |-> listeners],
                       !.sm.cardsStudied = @ \cup {card.id}]

\* exitStudyMode()
ExitStudyMode_KeepListener(S, ds, sel) ==
  IF ~S.sm.active THEN S
  ELSE [S EXCEPT !.out = [alert |-> "summary",
                          reviewed |-> Cardinality(S.sm.cardsStudied)],
                 !.sm.active = FALSE,
                 !.dom = NoDom,
                 !.idx = RenderCardsIndex(ds, sel, @),
                 !.flip = RenderCardsFlip(ds, sel, @)]
ExitStudyMode(S, ds, sel) ==
  IF ~S.sm.active THEN S
  ELSE [S EXCEPT !.ls = IF @ > 0 THEN @ - 1 ELSE 0,
                 !.out = [alert |-> "summary",
                          reviewed |-> Cardinality(S.sm.cardsStudied)],
                 !.sm.active = FALSE,
                 !.dom = NoDom,
                 !.idx = RenderCardsIndex(ds, sel, @),
                 !.flip = RenderCardsFlip(ds, sel, @)]

\* enterStudyMode(deckId)
EnterStudyMode_AttachThenCheck(S, ds, sel, deckId, t) ==
  LET i == DeckIndex(ds, deckId)
  IN IF i = 0 \/ Len(ds[i].cards) = 0
     THEN [S EXCEPT !.ls = @ + 1, !.out = [alert |-> "noCards", reviewed |-> 0]]
     ELSE LET S1 == ExitStudyMode(S, ds, sel)
              S2 == [S1 EXCEPT !.sm = [active |-> TRUE, deckId |-> deckId,
                                      currentIndex |-> 0, startTime |-> t,
                                      cardsStudied |-> {}]]
              S3 == RenderStudyModeCard(S2, ds, TRUE)
          IN [S3 EXCEPT !.ls = @ + 1]
EnterStudyMode(S, ds, sel, deckId, t) ==
  LET i == DeckIndex(ds, deckId)
  IN IF i = 0 \/ Len(ds[i].cards) = 0
     THEN [S EXCEPT !.out = [alert |-> "noCards", reviewed |-> 0]]
     ELSE LET S1 == ExitStudyMode(S, ds, sel)
              S2 == [S1 EXCEPT !.sm = [active |-> TRUE, deckId |-> deckId,
                                      currentIndex |-> 0, startTime |-> t,
                                      cardsStudied |-> {}]]
              S3 == RenderStudyModeCard(S2, ds, TRUE)
          IN [S3 EXCEPT !.ls = @ + 1]

\* the index validation of studyModePrevious / studyModeNext
NormalizeIndex_Clamp(c, n) == IF c < 0 THEN 0 ELSE IF c >= n THEN n - 1 ELSE c
NormalizeIndex(c, n) == IF c < 0 \/ c >= n THEN 0 ELSE c

\* (currentIndex + 1) % deckLength
NextIndex(c, n) == JsMod(NormalizeIndex(c, n) + 1, n)

\* (currentIndex - 1 + deckLength) % deckLength
PreviousIndex_NoWrap(c, n) ==
  IF NormalizeIndex(c, n) = 0 THEN 0 ELSE NormalizeIndex(c, n) - 1
PreviousIndex(c, n) == JsMod(NormalizeIndex(c, n) - 1 + n, n)

\* does studyModeNext / studyModePrevious get past its early returns
CanNavigate_NoActiveGuard(S, ds) ==
  /\ HasDeck(ds, S.sm.deckId)
  /\ Len(GetDeckById(ds, S.sm.deckId).cards) > 0
CanNavigate(S, ds) ==
  /\ S.sm.active
  /\ HasDeck(ds, S.sm.deckId)
  /\ Len(GetDeckById(ds, S.sm.deckId).cards) > 0

Navigate(S, ds, newIndex) ==
  LET cards == GetDeckById(ds, S.sm.deckId).cards
      S1 == [S EXCEPT !.sm.currentIndex = newIndex,
                      !.flip = MapDelete(@, cards[newIndex + 1].id)]
      S2 == RenderStudyModeCard(S1, ds, FALSE)
  IN S2

\* studyModeNext()
StudyModeNext(S, ds) ==
  IF ~CanNavigate(S, ds) THEN S
  ELSE Navigate(S, ds, NextIndex(S.sm.currentIndex,
                                 Len(GetDeckById(ds, S.sm.deckId).cards)))

\* studyModePrevious()
StudyModePrevious(S, ds) ==
  IF ~CanNavigate(S, ds) THEN S
  ELSE Navigate(S, ds, PreviousIndex(S.sm.currentIndex,
                                     Len(GetDeckById(ds, S.sm.deckId).cards)))

\* toggleStudyModeFlip(): the class of the element is toggled first; reading
\* currentCard.id of an index with no card throws after that
ToggleStudyModeFlip(S, ds) ==
  LET i == DeckIndex(ds, S.sm.deckId)
  IN IF i = 0 THEN S
     ELSE IF ~S.dom.present THEN S
     ELSE LET S1 == [S EXCEPT !.dom.flipped = ~@]
              c == S.sm.currentIndex + 1
          IN IF c \in DOMAIN ds[i].cards
             THEN [S1 EXCEPT !.flip = MapSet(@, ds[i].cards[c].id, S1.dom.flipped)]
             ELSE S1

StudyKeys == {"ArrowLeft", "ArrowRight", " ", "Escape", "x"}

\* handleStudyModeKeydown(e)
HandleStudyModeKeydown(S, ds, sel, key) ==
  IF ~S.sm.active THEN S
  ELSE IF key = "ArrowLeft" THEN StudyModePrevious(S, ds)
  ELSE IF key = "ArrowRight" THEN StudyModeNext(S, ds)
  ELSE IF key = " " THEN ToggleStudyModeFlip(S, ds)
  ELSE IF key = "Escape" THEN ExitStudyMode(S, ds, sel)
  ELSE S

\* the keydown listener of the study card element (setupStudyModeEventDelegation)
StudyCardKeydown(S, ds, key) ==
  IF key = " " THEN ToggleStudyModeFlip(S, ds) ELSE S

SetStudyState(S) ==
  /\ studyMode' = S.sm
  /\ cardFlipState' = S.flip
  /\ studyCardDom' = S.dom
  /\ currentCardIndex' = S.idx
  /\ studyKeyListeners' = S.ls

NoStudyOp == [op |-> "none", deckId |-> NULL, alert |-> "none", reviewed |-> 0]

\* the study operation just run, with what it showed
SetLastStudy(op, deckId, S) ==
  lastStudy' = [op |-> op, deckId |-> deckId, alert |-> S.out.alert,
                reviewed |-> S.out.reviewed]

\* the card at currentIndex of an active session, if there is one
CurrentCardOf(sm, ds) ==
  IF /\ sm.active
     /\ HasDeck(ds, sm.deckId)
     /\ (sm.currentIndex + 1) \in DOMAIN GetDeckById(ds, sm.deckId).cards
  THEN {GetDeckById(ds, sm.deckId).cards[sm.currentIndex + 1].id}
  ELSE {}

\* history of the session: a new session starts the set afresh
TrackStudy(newSession) ==
  everCurrent' = (IF newSession THEN {} ELSE everCurrent)
                   \cup CurrentCardOf(studyMode', decks')

\* one entry of the navigation history
NavStep(op, S, ds, S1) ==
  IF CanNavigate(S, ds)
  THEN <<[op |-> op, from |-> S.sm.currentIndex, to |-> S1.sm.currentIndex,
          n |-> Len(GetDeckById(ds, S.sm.deckId).cards)]>>
  ELSE <<>>

LastTwo(h) == IF Len(h) > 2 THEN SubSeq(h, Len(h) - 1, Len(h)) ELSE h


(***************************************************************************)
(* AccessibleModal (focus trap) and the page it lives in                   *)
(***************************************************************************)
\* the focusable elements of #deckModal in document order, and the tabbable
\* elements of the page around it
ModalEls == <<"close", "input", "cancel", "confirm">>
OutsideEls == <<"addDeckBtn", "searchInput">>
PageOrder == OutsideEls \o ModalEls

\* el.tagName === "INPUT" || el.tagName === "TEXTAREA"
IsTextEntry(el) == el = "input"

\* <div class="modal" id="deckModal"> has no tabindex: modal.focus() moves nothing
ModalContainerFocusable == FALSE

\* is the modal laid out: its inline display, and before the first open()
\* the display the style sheet gives it
RegionShown(display) == display \in {"block", "unsetShown"}

\* getFocusableElements(): the selector matches, filtered by visibility
GetFocusableElements(display, hidden) ==
  IF RegionShown(display)
  THEN SelectSeq(ModalEls, LAMBDA el : el \notin hidden)
  ELSE <<>>

\* can el take focus now
CanFocus(el, display, hidden) ==
  \/ el \in Range(OutsideEls)
  \/ el \in Range(GetFocusableElements(display, hidden))
  \/ el = "modal" /\ ModalContainerFocusable /\ RegionShown(display)

\* el.focus()
Focus(el, display, hidden, current) ==
  IF CanFocus(el, display, hidden) THEN el ELSE current

\* what the browser does with a Tab that nobody cancelled
Tabbable(display, hidden) ==
  SelectSeq(PageOrder, LAMBDA el : CanFocus(el, display, hidden))

NativeTab(current, shift, display, hidden) ==
  LET tb == Tabbable(display, hidden)
      p == FindIndex(tb, LAMBDA el : el = current)
  IN IF tb = <<>> THEN current
     ELSE IF p = 0 THEN (IF shift THEN tb[Len(tb)] ELSE tb[1])
     ELSE IF shift THEN tb[IF p = 1 THEN Len(tb) ELSE p - 1]
     ELSE tb[IF p = Len(tb) THEN 1 ELSE p + 1]

\* the initial focus target of open()
InitialFocusTarget(fe) ==
  IF Len(fe) > 0
  THEN (IF \E i \in DOMAIN fe : IsTextEntry(fe[i])
        THEN fe[FindIndex(fe, IsTextEntry)]
        ELSE fe[1])
  ELSE "modal"

\* trapFocus(e): this.focusableElements = this.getFocusableElements(), the
\* list the decision is taken on (cached is what the field held before)
TabElementSet_Cached(cached, display, hidden) == cached
TabElementSet(cached, display, hidden) == GetFocusableElements(display, hidden)

\* trapFocus(e) for a Tab: the decision, given the fresh list
TrapFocus_ShiftToFirst(fe, current, shift) ==
  IF Len(fe) = 0 THEN [prevented |-> TRUE, moved |-> FALSE, target |-> current]
  ELSE IF shift
  THEN (IF current = fe[1]
        THEN [prevented |-> TRUE, moved |-> TRUE, target |-> fe[1]]
        ELSE [prevented |-> FALSE, moved |-> FALSE, target |-> current])
  ELSE (IF current = fe[Len(fe)]
        THEN [prevented |-> TRUE, moved |-> TRUE, target |-> fe[1]]
        ELSE [prevented |-> FALSE, moved |-> FALSE, target |-> current])
TrapFocus(fe, current, shift) ==
  IF Len(fe) = 0 THEN [prevented |-> TRUE, moved |-> FALSE, target |-> current]
  ELSE IF shift
  THEN (IF current = fe[1]
        THEN [prevented |-> TRUE, moved |-> TRUE, target |-> fe[Len(fe)]]
        ELSE [prevented |-> FALSE, moved |-> FALSE, target |-> current])
  ELSE (IF current = fe[Len(fe)]
        THEN [prevented |-> TRUE, moved |-> TRUE, target |-> fe[1]]
        ELSE [prevented |-> FALSE, moved |-> FALSE, target |-> current])

\* via tells how the event came: "listener" (a keydown event of the
\* document), "direct" (handleKeyDown called with an event of the caller's)
NoKey == [key |-> "none", shift |-> FALSE, trapActive |-> FALSE,
          listener |-> FALSE, set |-> <<>>, from |-> "body", to |-> "body",
          prevented |-> FALSE, moved |-> FALSE, via |-> "none"]

\* the restorations close() has scheduled are recorded with the element each
\* was scheduled for, in the specifications that follow them
Untracked == <<"untracked">>
Scheduled(queue, target) ==
  IF queue = Untracked THEN queue ELSE Append(queue, target)
Fired(queue) == IF queue = Untracked THEN queue ELSE Tail(queue)

\* handleKeyDown(e): if (!this.focusTrapActive) return
HandlerRuns_Always(active) == TRUE
HandlerRuns(active) == active

\* no handler is being followed statement by statement
Idle == [handler |-> "idle", done |-> 0, trigger |-> "none"]

\* open(triggerElement = null)
Open(trigger) ==
  LET fe == GetFocusableElements(modalDisplay, hiddenEls)
  IN /\ previouslyFocusedElement' =
          IF trigger = "none" THEN activeElement ELSE trigger
     /\ focusableElements' = fe
     /\ modalDisplay' = "block"
     /\ focusTrapActive' = TRUE
     /\ modalKeyListener' = TRUE
     /\ activeElement' = Focus(InitialFocusTarget(fe), "block", hiddenEls,
                               activeElement)
     /\ lastKey' = NoKey
     /\ UNCHANGED <<pendingRestore, hiddenEls, restoreQueue>>

\* an element that is no longer rendered loses focus to the body
FocusAfterHide(current, display, hidden) ==
  IF current \in Range(ModalEls) /\ ~CanFocus(current, display, hidden)
  THEN "body" ELSE current

\* what close() assigns; the restoration itself is left to a timer
CloseEffect ==
  /\ focusTrapActive' = FALSE
  /\ modalKeyListener' = FALSE
  /\ modalDisplay' = "none"
  /\ activeElement' = FocusAfterHide(activeElement, "none", hiddenEls)
  /\ pendingRestore' = IF previouslyFocusedElement # "null"
                       THEN pendingRestore + 1 ELSE pendingRestore
  /\ restoreQueue' = IF previouslyFocusedElement # "null"
                     THEN Scheduled(restoreQueue, previouslyFocusedElement)
                     ELSE restoreQueue
  /\ UNCHANGED <<previouslyFocusedElement, focusableElements, hiddenEls>>

\* close()
Close ==
  /\ pendingRestore < MaxTimers
  /\ CloseEffect
  /\ lastKey' = NoKey

\* setTimeout(() => this.previouslyFocusedElement.focus(), 0) runs
RestoreFocus ==
  /\ pendingRestore > 0
  /\ pendingRestore' = pendingRestore - 1
  /\ activeElement' = Focus(previouslyFocusedElement, modalDisplay, hiddenEls,
                            activeElement)
  /\ restoreQueue' = Fired(restoreQueue)
  /\ lastKey' = NoKey
  /\ UNCHANGED <<focusTrapActive, modalKeyListener, previouslyFocusedElement,
                 focusableElements, modalDisplay, hiddenEls>>

ModalKeys == {"Tab", "Escape", "x"}

\* a keydown event on the document: handleKeyDown(e) when it is attached,
\* then the default action of the browser unless it was cancelled
KeyDown(key, shift) ==
  LET handled == modalKeyListener /\ HandlerRuns(focusTrapActive)
      fe == TabElementSet(focusableElements, modalDisplay, hiddenEls)
      d == TrapFocus(fe, activeElement, shift)
  IN IF handled /\ key = "Escape"
     THEN /\ pendingRestore < MaxTimers
          /\ CloseEffect
          /\ lastKey' = [NoKey EXCEPT !.key = key, !.shift = shift,
                                      !.trapActive = focusTrapActive,
                                      !.listener = TRUE, !.set = fe,
                                      !.from = activeElement,
                                      !.to = activeElement',
                                      !.prevented = TRUE, !.via = "listener"]
     ELSE IF handled /\ key = "Tab"
     THEN /\ focusableElements' = fe
          /\ activeElement' =
               IF d.moved THEN Focus(d.target, modalDisplay, hiddenEls, activeElement)
               ELSE IF d.prevented THEN activeElement
               ELSE NativeTab(activeElement, shift, modalDisplay, hiddenEls)
          /\ lastKey' = [NoKey EXCEPT !.key = key, !.shift = shift,
                                      !.trapActive = focusTrapActive,
                                      !.listener = TRUE, !.set = fe,
                                      !.from = activeElement,
                                      !.to = activeElement',
                                      !.prevented = d.prevented,
                                      !.moved = d.moved, !.via = "listener"]
          /\ UNCHANGED <<focusTrapActive, modalKeyListener,
                         previouslyFocusedElement, modalDisplay, pendingRestore,
                         hiddenEls, restoreQueue>>
     ELSE /\ activeElement' =
               IF key = "Tab"
               THEN NativeTab(activeElement, shift, modalDisplay, hiddenEls)
               ELSE activeElement
          /\ lastKey' = [NoKey EXCEPT !.key = key, !.shift = shift,
                                      !.trapActive = focusTrapActive,
                                      !.listener = modalKeyListener,
                                      !.set = fe, !.from = activeElement,
                                      !.to = activeElement',
                                      !.via = "listener"]
          /\ UNCHANGED <<focusTrapActive, modalKeyListener,
                         previouslyFocusedElement, focusableElements,
                         modalDisplay, pendingRestore, hiddenEls, restoreQueue>>

\* handleKeyDown(e) called with an event of the caller's making: there is no
\* default action of the browser behind it
HandleKeyDown(key, shift) ==
  LET fe == TabElementSet(focusableElements, modalDisplay, hiddenEls)
      d == TrapFocus(fe, activeElement, shift)
      rec == [NoKey EXCEPT !.key = key, !.shift = shift,
                           !.trapActive = focusTrapActive,
                           !.listener = modalKeyListener, !.set = fe,
                           !.from = activeElement, !.via = "direct"]
  IN IF ~HandlerRuns(focusTrapActive)
     THEN /\ lastKey' = [rec EXCEPT !.to = activeElement]
          /\ UNCHANGED <<focusTrapActive, modalKeyListener,
                         previouslyFocusedElement, focusableElements,
                         modalDisplay, activeElement, pendingRestore,
                         hiddenEls, restoreQueue>>
     ELSE IF key = "Escape"
     THEN /\ pendingRestore < MaxTimers
          /\ CloseEffect
          /\ lastKey' = [rec EXCEPT !.to = activeElement', !.prevented = TRUE]
     ELSE IF key = "Tab"
     THEN /\ focusableElements' = fe
          /\ activeElement' =
               IF d.moved THEN Focus(d.target, modalDisplay, hiddenEls, activeElement)
               ELSE activeElement
          /\ lastKey' = [rec EXCEPT !.to = activeElement',
                                    !.prevented = d.prevented, !.moved = d.moved]
          /\ UNCHANGED <<focusTrapActive, modalKeyListener,
                         previouslyFocusedElement, modalDisplay, pendingRestore,
                         hiddenEls, restoreQueue>>
     ELSE /\ lastKey' = [rec EXCEPT !.to = activeElement]
          /\ UNCHANGED <<focusTrapActive, modalKeyListener,
                         previouslyFocusedElement, focusableElements,
                         modalDisplay, activeElement, pendingRestore,
                         hiddenEls, restoreQueue>>

\* the content of the modal changes: an element is hidden/disabled or shown again
ContentChange(el) ==
  /\ hiddenEls' = IF el \in hiddenEls THEN hiddenEls \ {el} ELSE hiddenEls \cup {el}
  /\ activeElement' = FocusAfterHide(activeElement, modalDisplay, hiddenEls')
  /\ lastKey' = NoKey
  /\ UNCHANGED <<focusTrapActive, modalKeyListener, previouslyFocusedElement,
                 focusableElements, modalDisplay, pendingRestore, restoreQueue>>


(***************************************************************************)
(* Start-up: new DeckManager(), then UIManager.init() -> loadPersistedState *)
(***************************************************************************)
\* loadInitialDecks(): the three sample decks
LoadInitialDecks ==
  [decks |-> <<[obj |-> 1, id |-> 1, name |-> <<"S">>, cards |-> <<>>],
               [obj |-> 2, id |-> 2, name |-> <<"B">>, cards |-> <<>>],
               [obj |-> 3, id |-> 3, name |-> <<"J">>, cards |-> <<>>]>>,
   nextId |-> 4, selectedDeckId |-> NULL]

SetMax(S) == CHOOSE x \in S : \A y \in S : y <= x

\* decks.map((d) => d.id).filter(Number.isInteger)
IntegerDeckIds(ds) == DeckIds(ds) \ {NULL}

\* deckIds.length > 0 ? Math.max(...deckIds) + 1 : 1
SeedNextId(ds) ==
  IF IntegerDeckIds(ds) = {} THEN 1 ELSE SetMax(IntegerDeckIds(ds)) + 1

\* JSON.parse(JSON.stringify(savedState.decks)): fresh objects
CloneDecks(ds, firstObj) ==
  [i \in DOMAIN ds |->
     IF IsNullDeck(ds[i]) THEN NullDeck
     ELSE [obj |-> firstObj + i - 1, id |-> ds[i].id, name |-> ds[i].name,
           cards |-> ds[i].cards]]

\* loadPersistedState(): decks is assigned first; d.id of a null element
\* throws in the map, the catch block logs, and nextId and selectedDeckId
\* stay as the constructor of DeckManager left them
LoadPersistedState(saved) ==
  LET ds == CloneDecks(saved.decks, 4)
  IN IF HasNullDeck(ds)
     THEN [decks |-> ds,
           nextId |-> LoadInitialDecks.nextId,
           selectedDeckId |-> LoadInitialDecks.selectedDeckId]
     ELSE [decks |-> ds,
           nextId |-> SeedNextId(ds),
           selectedDeckId |->
             IF saved.selType = "int" /\ saved.selectedDeckId # 0
                /\ HasDeck(ds, saved.selectedDeckId)
             THEN saved.selectedDeckId ELSE NULL]

\* a snapshot an earlier session saved: deck 1 with one card, selected
SavedOne ==
  [kind |-> "state", version |-> StorageVersion, decksType |-> "array",
   decks |-> <<[id |-> 1, name |-> <<"a">>,
                cards |-> <<[id |-> <<0, 1>>, front |-> <<"q">>, back |-> <<"q">>]>>]>>,
   selType |-> "int", selectedDeckId |-> 1, searchQuery |-> <<>>,
   savedAt |-> 0, padding |-> 0]

\* a stored snapshot whose selection names a deck it does not hold
SavedStale ==
  [kind |-> "state", version |-> StorageVersion, decksType |-> "array",
   decks |-> <<[id |-> 1, name |-> <<"a">>, cards |-> <<>>]>>,
   selType |-> "int", selectedDeckId |-> 2, searchQuery |-> <<>>,
   savedAt |-> 0, padding |-> 0]

\* a snapshot an earlier session saved: deck 1 with MaxStudyCards cards
SavedStudy ==
  [kind |-> "state", version |-> StorageVersion, decksType |-> "array",
   decks |-> <<[id |-> 1, name |-> <<"a">>,
                cards |-> [k \in 1..MaxStudyCards |->
                             [id |-> <<0, k>>, front |-> <<"q">>, back |-> <<"q">>]]]>>,
   selType |-> "int", selectedDeckId |-> 1, searchQuery |-> <<>>,
   savedAt |-> 0, padding |-> 0]

InitFrom(item) ==
  LET st == LoadPersistedState(LoadState("ok", item, 0).value)
  IN /\ slot = item
     /\ storageMode = "ok"
     /\ lastLoad = NoLoad
     /\ lastSave = NoSave
     /\ snapHeap = <<>>
     /\ loadLog = <<>>
     /\ searchTimers = {}
     /\ debounceTimer = NULL
     /\ searchCalls = <<>>
     /\ searchLog = <<>>
     /\ addedCards = {<<st.decks[i].id, st.decks[i].cards[c].id>> :
                        <<i, c>> \in {x \in (DOMAIN st.decks) \X (1..(MaxCards + MaxStudyCards)) :
                                        /\ ~IsNullDeck(st.decks[x[1]])
                                        /\ x[2] \in DOMAIN st.decks[x[1]].cards}}
     /\ decks = st.decks
     /\ nextId = st.nextId
     /\ selectedDeckId = st.selectedDeckId
     /\ nextObj = 4 + Len(st.decks)
     /\ observers = <<"ui">>
     /\ currentCardIndex = 0
     /\ cardFlipState = EmptyMap
     /\ studyMode = NoStudy
     /\ studyCardDom = NoDom
     /\ studyKeyListeners = 0
     /\ now = 0
     /\ callerView = NoView
     /\ createdIds = <<>>
     /\ lastOp = IdleOp
     /\ navHist = <<>>
     /\ lastStudy = NoStudyOp
     /\ everCurrent = {}

\* the grid before the first renderCards(): init() renders the deck list only
InitGrid(followed) ==
  /\ cardsClickListeners = IF followed THEN 0 ELSE NULL
  /\ shownCards = <<>>
  /\ isSearchActive = FALSE
  /\ filteredCards = <<>>
  /\ lastClick = NoClick

InitTrap(displays, focused, tracked) ==
  /\ focusTrapActive = FALSE
  /\ modalKeyListener = FALSE
  /\ previouslyFocusedElement = "null"
  /\ focusableElements = <<>>
  /\ modalDisplay \in displays
  /\ activeElement \in focused
  /\ pendingRestore = 0
  /\ hiddenEls = {}
  /\ lastKey = NoKey
  /\ restoreQueue = IF tracked THEN <<>> ELSE Untracked
  /\ pc = Idle

(***************************************************************************)
(* Actions                                                                 *)
(***************************************************************************)
GridState ==
  [listeners |-> cardsClickListeners, shown |-> shownCards,
   active |-> isSearchActive, filtered |-> filteredCards]

SetGridState(G) ==
  /\ cardsClickListeners' = G.listeners
  /\ shownCards' = G.shown
  /\ isSearchActive' = G.active
  /\ filteredCards' = G.filtered

\* the grid after a registry operation: handleDeckChange for every event the
\* view's subscription got, and the renderCards() of UIManager.selectDeck
\* when the operation came from there (extra)
GridFollows(extra) ==
  LET uiEvents == SelectSeq(lastOp'.events, LAMBDA e : e.to = "ui")
      G1 == IF uiEvents = <<>> THEN GridState
            ELSE HandleDeckChangeGridN(Len(uiEvents), uiEvents[1].kind, decks',
                                       selectedDeckId', GridState)
  IN IF cardsClickListeners = NULL THEN UNCHANGED gridVars
     ELSE SetGridState(IF extra THEN RenderCards(decks', selectedDeckId', G1)
                       ELSE G1)

RegistryFrameBase ==
  /\ UNCHANGED <<observers, studyMode, studyKeyListeners>>
  /\ callerView' = NoView
  /\ navHist' = <<>>
  /\ lastStudy' = NoStudyOp
  /\ TrackStudy(FALSE)
  /\ UNCHANGED <<trapVars, storeVars, searchVars, snapVars>>

RegistryFrame ==
  /\ RegistryFrameBase
  /\ GridFollows(FALSE)
  /\ lastClick' = NoClick
  /\ UNCHANGED pc

DoCreateDeck == \E name \in NameInputs : CreateDeck(name) /\ RegistryFrame
DoUpdateDeck ==
  \E id \in DeckIdInputs, name \in RenameInputs : UpdateDeck(id, name) /\ RegistryFrame
DoDeleteDeck == \E id \in DeckIdInputs : DeleteDeck(id) /\ RegistryFrame
DoSelectDeck == \E id \in DeckIdInputs : SelectDeck(id) /\ RegistryFrame
DoAddCard ==
  \E id \in DeckIdInputs : AddCardToDeck(id, <<"q">>, <<"q">>) /\ RegistryFrame
DoDeleteCard ==
  \E id \in DeckIdInputs, c \in CardIdInputs(decks) :
    DeleteCardFromDeck(id, c) /\ RegistryFrame
DoEditCard ==
  \E c \in CardIdInputs(decks), f \in PromptInputs, b \in {Undefined, <<"q">>} :
    EditCard(c, f, b) /\ RegistryFrame

OtherFrame ==
  UNCHANGED <<decks, nextId, selectedDeckId, slot, now, nextObj, createdIds, addedCards,
              uiVars, trapVars, storeVars, searchVars, restVars>>

DoSubscribe ==
  /\ \E cb \in Callbacks : Subscribe(cb)
  /\ lastOp' = IdleOp
  /\ UNCHANGED callerView
  /\ OtherFrame

DoUnsubscribe ==
  /\ \E cb \in Callbacks : Unsubscribe(cb)
  /\ lastOp' = IdleOp
  /\ UNCHANGED callerView
  /\ OtherFrame

\* a caller calls getAllDecks() and keeps the result
CallGetAllDecks ==
  /\ callerView' = GetAllDecks(decks)
  /\ lastOp' = [IdleOp EXCEPT !.op = "getAll"]
  /\ UNCHANGED <<decks, nextId, selectedDeckId, observers, slot, now, nextObj,
                 createdIds, addedCards, uiVars, trapVars, storeVars, searchVars, restVars>>

DecksOf(ds, items) ==
  [k \in DOMAIN items |-> ds[FindIndex(ds, LAMBDA d : d.obj = items[k])]]

Reverse(q) == [k \in DOMAIN q |-> q[Len(q) + 1 - k]]

\* the caller changes the array it was given: shift() or reverse()
CallerMutatesArray ==
  /\ callerView.array # "none"
  /\ callerView.items # <<>>
  /\ \E items \in {Tail(callerView.items), Reverse(callerView.items)} :
       /\ callerView' = [callerView EXCEPT !.items = items]
       /\ decks' = IF callerView.array = "decks" THEN DecksOf(decks, items)
                   ELSE decks
  /\ lastOp' = [IdleOp EXCEPT !.op = "callerArray"]
  /\ UNCHANGED <<nextId, selectedDeckId, observers, slot, now, nextObj,
                 createdIds, addedCards, uiVars, trapVars, storeVars, searchVars, restVars>>

\* the caller changes a deck object of the array it was given: its name, or
\* its cards
CallerMutatesDeck ==
  /\ callerView.array # "none"
  /\ \E k \in DOMAIN callerView.items, what \in {"name", "cards"} :
       decks' = [i \in DOMAIN decks |->
                   IF decks[i].obj # callerView.items[k] THEN decks[i]
                   ELSE IF what = "name" THEN [decks[i] EXCEPT !.name = <<"z">>]
                   ELSE [decks[i] EXCEPT !.cards = <<>>]]
  /\ lastOp' = [IdleOp EXCEPT !.op = "callerDeck"]
  /\ UNCHANGED <<nextId, selectedDeckId, observers, slot, now, nextObj,
                 callerView, createdIds, addedCards, uiVars, trapVars, storeVars, searchVars, restVars>>

StudyFrame ==
  /\ lastOp' = IdleOp
  /\ UNCHANGED <<decks, nextId, selectedDeckId, observers, slot, nextObj,
                 callerView, createdIds, addedCards, trapVars, storeVars, searchVars, restVars>>

DoEnterStudyMode ==
  /\ \E id \in DeckIdInputs, t \in Times :
       LET S1 == EnterStudyMode(StudyState, decks, selectedDeckId, id, t)
       IN /\ SetStudyState(S1)
          /\ SetLastStudy("enter", id, S1)
          /\ now' = t
          /\ StudyFrame
          /\ TrackStudy(S1.out.alert # "noCards")
  /\ navHist' = <<>>

DoStudyModeNext ==
  LET S1 == StudyModeNext(StudyState, decks)
  IN /\ SetStudyState(S1)
     /\ SetLastStudy("next", NULL, S1)
     /\ navHist' = LastTwo(navHist \o NavStep("next", StudyState, decks, S1))
     /\ UNCHANGED now
     /\ StudyFrame
     /\ TrackStudy(FALSE)

DoStudyModePrevious ==
  LET S1 == StudyModePrevious(StudyState, decks)
  IN /\ SetStudyState(S1)
     /\ SetLastStudy("previous", NULL, S1)
     /\ navHist' = LastTwo(navHist \o NavStep("prev", StudyState, decks, S1))
     /\ UNCHANGED now
     /\ StudyFrame
     /\ TrackStudy(FALSE)

DoExitStudyMode ==
  /\ \E t \in Times :
       LET S1 == ExitStudyMode(StudyState, decks, selectedDeckId)
       IN /\ SetStudyState(S1)
          /\ SetLastStudy("exit", NULL, S1)
          /\ now' = t
  /\ navHist' = <<>>
  /\ StudyFrame
  /\ TrackStudy(FALSE)

\* a key is pressed while the page shows the cards container: the listener
\* of the focused study card runs first, then the one of the document
StudyKeyDown ==
  \E key \in StudyKeys, onCard \in BOOLEAN :
    /\ onCard => studyCardDom.present
    /\ LET S0 == StudyState
           S1 == IF onCard /\ S0.dom.listeners
                 THEN StudyCardKeydown(S0, decks, key) ELSE S0
           S2 == IF S1.ls > 0
                 THEN HandleStudyModeKeydown(S1, decks, selectedDeckId, key)
                 ELSE S1
       IN /\ SetStudyState(S2)
          /\ SetLastStudy(key, NULL, S2)
          /\ navHist' =
               IF S1.ls > 0 /\ S1.sm.active /\ key = "ArrowRight"
               THEN LastTwo(navHist \o NavStep("next", S1, decks, S2))
               ELSE IF S1.ls > 0 /\ S1.sm.active /\ key = "ArrowLeft"
               THEN LastTwo(navHist \o NavStep("prev", S1, decks, S2))
               ELSE IF S2 = S0 THEN navHist ELSE <<>>
    /\ UNCHANGED now
    /\ StudyFrame
    /\ TrackStudy(FALSE)

\* a click on the study card element
ClickStudyCard ==
  /\ studyCardDom.present
  /\ studyCardDom.listeners
  /\ LET S1 == ToggleStudyModeFlip(StudyState, decks)
     IN SetStudyState(S1) /\ SetLastStudy("click", NULL, S1)
  /\ UNCHANGED <<now, navHist>>
  /\ StudyFrame
  /\ TrackStudy(FALSE)

TrapFrame == UNCHANGED <<regVars, uiVars, storeVars, searchVars, restVars>>

(***************************************************************************)
(* open(), close() and exitStudyMode() statement by statement, in the      *)
(* order of the source.  A handler runs to completion: nothing else runs   *)
(* between two of its statements.                                          *)
(***************************************************************************)
OpenStatements ==
  <<"storePrevious", "getFocusable", "show", "setFlag", "addListener", "focus">>

CloseStatements_HideFirst ==
  <<"hide", "clearFlag", "removeListener", "scheduleRestore">>
CloseStatements ==
  <<"clearFlag", "removeListener", "hide", "scheduleRestore">>

ExitStudyStatements ==
  <<"removeListener", "cloneCard", "clearActive", "restoreUI", "alert">>

StatementsOf(handler) ==
  IF handler = "open" THEN OpenStatements
  ELSE IF handler = "close" THEN CloseStatements
  ELSE ExitStudyStatements

\* the statement the handler in progress runs next
NextStatement == StatementsOf(pc.handler)[pc.done + 1]

\* one statement of open(triggerElement)
OpenStatement(st, trigger) ==
  /\ previouslyFocusedElement' =
       IF st = "storePrevious"
       THEN (IF trigger = "none" THEN activeElement ELSE trigger)
       ELSE previouslyFocusedElement
  /\ focusableElements' =
       IF st = "getFocusable" THEN GetFocusableElements(modalDisplay, hiddenEls)
       ELSE focusableElements
  /\ modalDisplay' = IF st = "show" THEN "block" ELSE modalDisplay
  /\ focusTrapActive' = IF st = "setFlag" THEN TRUE ELSE focusTrapActive
  /\ modalKeyListener' = IF st = "addListener" THEN TRUE ELSE modalKeyListener
  /\ activeElement' =
       IF st = "focus"
       THEN Focus(InitialFocusTarget(focusableElements), modalDisplay, hiddenEls,
                  activeElement)
       ELSE activeElement
  /\ lastKey' = NoKey
  /\ UNCHANGED <<pendingRestore, hiddenEls, restoreQueue>>
  /\ UNCHANGED uiVars

\* one statement of close()
CloseStatement(st) ==
  /\ focusTrapActive' = IF st = "clearFlag" THEN FALSE ELSE focusTrapActive
  /\ modalKeyListener' = IF st = "removeListener" THEN FALSE ELSE modalKeyListener
  /\ modalDisplay' = IF st = "hide" THEN "none" ELSE modalDisplay
  /\ activeElement' =
       IF st = "hide" THEN FocusAfterHide(activeElement, "none", hiddenEls)
       ELSE activeElement
  /\ pendingRestore' =
       IF st = "scheduleRestore" /\ previouslyFocusedElement # "null"
       THEN pendingRestore + 1 ELSE pendingRestore
  /\ restoreQueue' =
       IF st = "scheduleRestore" /\ previouslyFocusedElement # "null"
       THEN Scheduled(restoreQueue, previouslyFocusedElement) ELSE restoreQueue
  /\ lastKey' = NoKey
  /\ UNCHANGED <<previouslyFocusedElement, focusableElements, hiddenEls>>
  /\ UNCHANGED uiVars

\* one statement of exitStudyMode(), past its guard
ExitStudyStatement(st) ==
  /\ studyKeyListeners' =
       IF st = "removeListener" /\ studyKeyListeners > 0
       THEN studyKeyListeners - 1 ELSE studyKeyListeners
  /\ studyCardDom' =
       IF st = "cloneCard" /\ studyCardDom.present
       THEN [studyCardDom EXCEPT !.listeners = FALSE]
       ELSE IF st = "restoreUI" THEN NoDom
       ELSE studyCardDom
  /\ studyMode' = IF st = "clearActive" THEN [studyMode EXCEPT !.active = FALSE]
                  ELSE studyMode
  /\ currentCardIndex' =
       IF st = "restoreUI"
       THEN RenderCardsIndex(decks, selectedDeckId, currentCardIndex)
       ELSE currentCardIndex
  /\ cardFlipState' =
       IF st = "restoreUI"
       THEN RenderCardsFlip(decks, selectedDeckId, cardFlipState)
       ELSE cardFlipState
  /\ lastStudy' =
       IF st = "alert"
       THEN [op |-> "exit", deckId |-> NULL, alert |-> "summary",
             reviewed |-> Cardinality(studyMode.cardsStudied)]
       ELSE lastStudy
  /\ UNCHANGED <<navHist, everCurrent>>
  /\ UNCHANGED trapVars

\* a handler is called: a click on the add-deck button or open() from code,
\* close() (a button of the modal, the backdrop, Escape), exitStudyMode()
\* with a session active (the exit button, Escape)
BeginHandler ==
  /\ pc = Idle
  /\ \E handler \in {"open", "close", "exitStudy"}, trigger \in {"none", "addDeckBtn"} :
       /\ handler # "open" => trigger = "none"
       /\ handler = "close" => pendingRestore < MaxTimers
       /\ handler = "exitStudy" => studyMode.active
       /\ pc' = [handler |-> handler, done |-> 0, trigger |-> trigger]
  /\ UNCHANGED <<regVars, uiVars, trapVars, storeVars, searchVars, snapVars,
                 gridVars, lastClick>>

\* the handler in progress runs its next statement
RunStatement ==
  /\ pc.handler # "idle"
  /\ IF pc.handler = "open" THEN OpenStatement(NextStatement, pc.trigger)
     ELSE IF pc.handler = "close" THEN CloseStatement(NextStatement)
     ELSE ExitStudyStatement(NextStatement)
  /\ pc' = IF pc.done + 1 = Len(StatementsOf(pc.handler)) THEN Idle
           ELSE [pc EXCEPT !.done = @ + 1]
  /\ UNCHANGED <<regVars, storeVars, searchVars, snapVars, gridVars, lastClick>>

\* between two handlers: a session is entered, a pending restoration runs,
\* a key other than Escape is pressed
EnterBetweenHandlers == pc = Idle /\ DoEnterStudyMode
RestoreBetweenHandlers == pc = Idle /\ RestoreFocus /\ TrapFrame
KeyBetweenHandlers ==
  /\ pc = Idle
  /\ \E key \in ModalKeys \ {"Escape"}, shift \in BOOLEAN : KeyDown(key, shift) /\ TrapFrame

DoOpen == \E trigger \in {"none", "addDeckBtn"} : Open(trigger) /\ TrapFrame
DoClose == Close /\ TrapFrame
DoRestoreFocus == RestoreFocus /\ TrapFrame
DoKeyDown == \E key \in ModalKeys, shift \in BOOLEAN : KeyDown(key, shift) /\ TrapFrame
DoContentChange == \E el \in Range(ModalEls) : ContentChange(el) /\ TrapFrame
DoHandleKeyDown ==
  \E key \in ModalKeys, shift \in BOOLEAN : HandleKeyDown(key, shift) /\ TrapFrame

\* stored payloads a start-up can find under the key
BadDecks == [SavedOne EXCEPT !.decksType = "other", !.decks = <<>>]
BadSelection == [SavedOne EXCEPT !.selType = "string"]
FloatSelection == [SavedOne EXCEPT !.selType = "float"]
OldVersion == [SavedOne EXCEPT !.version = 0]
NoVersion == [SavedOne EXCEPT !.version = NULL]
FutureVersion == [SavedOne EXCEPT !.version = StorageVersion + 1]
OldNullDeck == [SavedOne EXCEPT !.version = 0, !.decks = <<NullDeck>>]
StoredPayloads ==
  {NoItem, Garbage, JsonScalar, SavedOne, BadDecks, BadSelection,
   FloatSelection, OldVersion, NoVersion, FutureVersion, OldNullDeck}

\* snapshots of another version of the application, written under the same
\* key: a deck without a cards field, a deck whose cards is a string
MissingCardsDeck == [id |-> 1, name |-> <<"a">>]
MalformedCardsDeck == [id |-> 1, name |-> <<"a">>, cardsJson |-> "string"]
ForeignPayloads ==
  {[SavedOne EXCEPT !.version = v, !.decks = <<d>>] :
     v \in {NULL, 0, StorageVersion + 1},
     d \in {MissingCardsDeck, MalformedCardsDeck}}

\* stored snapshots of the current version whose decks seed nextId: a deck
\* whose id is not an integer beside one whose id is, only a deck whose id is
\* not an integer, a null beside a deck
NonIntegerIdBesideDeck ==
  [SavedOne EXCEPT !.decks = <<[id |-> NULL, name |-> <<"a">>, cards |-> <<>>],
                               [id |-> 2, name |-> <<"b">>, cards |-> <<>>]>>]
OnlyNonIntegerId ==
  [SavedOne EXCEPT !.decks = <<[id |-> NULL, name |-> <<"a">>, cards |-> <<>>]>>]
NullBesideDeck ==
  [SavedOne EXCEPT !.decks = <<[id |-> 5, name |-> <<"a">>, cards |-> <<>>], NullDeck>>,
                   !.selType = "null", !.selectedDeckId = NULL]
SeedPayloads ==
  {NoItem, Garbage, SavedOne, SavedStale, NonIntegerIdBesideDeck, OnlyNonIntegerId,
   NullBesideDeck}

\* objects a caller hands to saveState()
SaveInputs ==
  {OldVersion,
   [GetDefaultState(0) EXCEPT !.searchQuery = <<"q">>],
   [SavedStale EXCEPT !.padding = SizeCeiling],
   BadSelection}

StorageFrame ==
  UNCHANGED <<decks, nextId, selectedDeckId, observers, nextObj, callerView,
              createdIds, lastOp, addedCards, uiVars, trapVars, searchVars, restVars>>

\* storage.loadState()
DoLoadState ==
  /\ \E t \in Times :
       LET r == LoadState(storageMode, slot, t)
       IN /\ lastLoad' = [done |-> TRUE, raised |-> r.raised, mode |-> storageMode,
                          item |-> slot, value |-> r.value, t |-> t]
          /\ now' = t
  /\ UNCHANGED <<slot, storageMode, lastSave>>
  /\ StorageFrame

\* storage.saveState(state)
DoSaveState ==
  /\ \E state \in SaveInputs, t \in Times :
       LET r == SaveState(storageMode, slot, state, t)
       IN /\ slot' = r.slot
          /\ lastSave' = [done |-> TRUE, raised |-> r.raised, ret |-> r.ret,
                          mode |-> storageMode, state |-> state, before |-> slot,
                          after |-> r.slot, t |-> t]
          /\ now' = t
  /\ UNCHANGED <<storageMode, lastLoad>>
  /\ StorageFrame

\* storage.clearState()
DoClearState ==
  /\ slot' = ClearState(storageMode, slot)
  /\ UNCHANGED <<now, storageMode, lastLoad, lastSave>>
  /\ StorageFrame

\* the browser's storage starts or stops failing (private mode, a full disk)
StorageChanges ==
  /\ \E mode \in StorageModes : mode # storageMode /\ storageMode' = mode
  /\ UNCHANGED <<slot, now, lastLoad, lastSave>>
  /\ StorageFrame

\* another tab, running another version of the application, writes the key
OtherVersionWrites ==
  /\ \E item \in ForeignPayloads : item # slot /\ slot' = item
  /\ UNCHANGED <<now, storageMode, lastLoad, lastSave>>
  /\ StorageFrame

\* a caller calls loadState() and keeps what it returns
LoadTimes == {t \in now..(now + 1) : t <= MaxLoadClock}

DoLoadSnapshot ==
  /\ Len(loadLog) < MaxLoads
  /\ \E t \in LoadTimes :
       LET r == LoadState(storageMode, slot, t)
           ref == ReturnedObject(snapHeap)
           heap1 == IF ref \in DOMAIN snapHeap THEN snapHeap
                    ELSE Append(snapHeap, r.value)
       IN /\ snapHeap' = heap1
          /\ loadLog' = Append(loadLog,
                               [ref |-> ref, returned |-> heap1[ref],
                                mode |-> storageMode, item |-> slot, t |-> t])
          /\ now' = t
  /\ UNCHANGED <<slot, storeVars>>
  /\ UNCHANGED <<decks, nextId, selectedDeckId, observers, nextObj, callerView,
                 createdIds, lastOp, addedCards, uiVars, trapVars, searchVars,
                 gridVars, lastClick, pc>>

\* what a holder can do to a snapshot: push or shift a deck, rename a deck,
\* rewrite a card
SnapshotMutations(v) ==
  (IF Len(v.decks) < 2
   THEN {[v EXCEPT !.decks = Append(@, [id |-> 9, name |-> <<"z">>, cards |-> <<>>])]}
   ELSE {})
  \cup (IF v.decks # <<>>
        THEN {[v EXCEPT !.decks = Tail(@)], [v EXCEPT !.decks[1].name = <<"z">>]}
        ELSE {})
  \cup (IF v.decks # <<>> /\ v.decks[1].cards # <<>>
        THEN {[v EXCEPT !.decks[1].cards[1].front = <<"z">>]}
        ELSE {})

CallerMutatesSnapshot ==
  /\ \E ref \in DOMAIN snapHeap :
       \E v \in SnapshotMutations(snapHeap[ref]) :
         snapHeap' = [snapHeap EXCEPT ![ref] = v]
  /\ UNCHANGED <<loadLog, storeVars>>
  /\ UNCHANGED <<regVars, uiVars, trapVars, searchVars, gridVars, lastClick, pc>>

\* the grid has room for the listener another render adds
GridRoom == cardsClickListeners # NULL /\ cardsClickListeners < MaxGridListeners

\* a click on a deck button of the sidebar: UIManager.selectDeck(deckId)
UISelectDeck ==
  /\ GridRoom
  /\ \E id \in DeckIds(decks) : SelectDeck(id)
  /\ RegistryFrameBase
  /\ GridFollows(TRUE)
  /\ lastClick' = NoClick
  /\ UNCHANGED pc

\* a click on the body of a shown card: every listener of the container
\* toggles is-flipped and stores the class's state
ClickCardBody ==
  /\ cardsClickListeners # NULL
  /\ \E k \in DOMAIN shownCards :
       LET id == shownCards[k]
           n == cardsClickListeners
           before == MapGet(cardFlipState, id)
           after == IF n % 2 = 1 THEN ~before ELSE before
       IN /\ n > 0
          /\ cardFlipState' = MapSet(cardFlipState, id, after)
          /\ lastClick' = [kind |-> "body", card |-> id, listeners |-> n,
                           flipBefore |-> before, flipAfter |-> after,
                           requests |-> 0]
          /\ UNCHANGED pc
  /\ lastOp' = IdleOp
  /\ UNCHANGED <<decks, nextId, selectedDeckId, observers, slot, now, nextObj,
                 callerView, createdIds, addedCards>>
  /\ UNCHANGED <<currentCardIndex, studyMode, studyCardDom, studyKeyListeners,
                 navHist, lastStudy, everCurrent>>
  /\ UNCHANGED <<trapVars, storeVars, searchVars, snapVars, gridVars>>

\* a click on the delete button of a shown card, every confirm() answered
\* with OK: each listener of the container asks and calls
\* deleteCardFromDeck; the calls after the first find no card and throw
ClickCardDelete ==
  /\ GridRoom
  /\ \E k \in DOMAIN shownCards :
       LET id == shownCards[k]
           n == cardsClickListeners
           s == SelectedDeckIndex(decks, selectedDeckId)
       IN /\ n > 0
          /\ lastClick' = [kind |-> "delete", card |-> id, listeners |-> n,
                           flipBefore |-> FALSE, flipAfter |-> FALSE,
                           requests |-> n]
          /\ UNCHANGED pc
          /\ IF s # 0 /\ CardIndex(decks[s].cards, id) # 0
             THEN /\ DeleteCardFromDeck(selectedDeckId, id)
                  /\ RegistryFrameBase
                  /\ GridFollows(FALSE)
             ELSE /\ cardFlipState' = MapDelete(cardFlipState, id)
                  /\ lastOp' = [IdleOp EXCEPT !.op = "deleteCard",
                                              !.result = "NotFoundError",
                                              !.invalid = "id"]
                  /\ UNCHANGED <<decks, nextId, selectedDeckId, nextObj,
                                 createdIds, addedCards, slot, now,
                                 currentCardIndex, studyCardDom, gridVars>>
                  /\ RegistryFrameBase

\* input in the search field: performSearch(query)
PerformSearch ==
  /\ cardsClickListeners # NULL
  /\ \E query \in {<<>>, <<"a">>} :
       LET s == SelectedDeckIndex(decks, selectedDeckId)
       IN s # 0 /\ SearchOf(decks[s].cards, query, decks[s].obj)
  /\ lastClick' = NoClick
  /\ UNCHANGED pc
  /\ UNCHANGED <<regVars, uiVars, trapVars, storeVars, snapVars, gridVars>>

\* the timer of performSearch runs: the callback stores the result and
\* renders; filterCards reads the deck's cards array as it is by then
GridSearchTimerFires ==
  /\ GridRoom
  /\ \E id \in DOMAIN searchCalls :
       LET call == searchCalls[id]
           d == FindIndex(decks, LAMBDA x : x.obj = call.deck)
           cards == IF d = 0 THEN call.cards ELSE decks[d].cards
           r == SearchResult(cards, call.query)
       IN /\ SearchTimerFiresOn(id, cards)
          /\ SetGridState(RenderCards(decks, selectedDeckId,
                                      [GridState EXCEPT
                                         !.filtered = r.cards,
                                         !.active = Trim(call.query) # <<>>]))
  /\ lastClick' = NoClick
  /\ UNCHANGED pc
  /\ UNCHANGED <<regVars, uiVars, trapVars, storeVars, snapVars>>

SearchFrame == UNCHANGED <<regVars, uiVars, trapVars, storeVars, restVars>>

DoSearch ==
  /\ \E cards \in SearchCardLists, query \in SearchQueries : Search(cards, query)
  /\ SearchFrame

DoSearchTimerFires ==
  /\ \E id \in 1..MaxSearchCalls : SearchTimerFires(id)
  /\ SearchFrame

DoElapse ==
  /\ \E ms \in {DebounceDelay \div 3, DebounceDelay} : Elapse(ms)
  /\ SearchFrame

(***************************************************************************)
(* Specifications                                                          *)
(***************************************************************************)
\* the deck registry with its subscribers and callers
Init ==
  /\ \E item \in {NoItem, SavedOne, SavedStale} : InitFrom(item)
  /\ InitTrap({"unsetShown"}, {"body"}, FALSE)
  /\ InitGrid(FALSE)

Next ==
  \/ DoCreateDeck
  \/ DoUpdateDeck
  \/ DoDeleteDeck
  \/ DoSelectDeck
  \/ DoAddCard
  \/ DoDeleteCard
  \/ DoEditCard
  \/ DoSubscribe
  \/ DoUnsubscribe

Spec == Init /\ [][Next]_vars

\* a caller of getAllDecks() that changes what it was given
NextCaller ==
  \/ CallGetAllDecks
  \/ CallerMutatesArray
  \/ CallerMutatesDeck
  \/ DoCreateDeck
  \/ DoAddCard
  \/ DoDeleteDeck

SpecCaller == Init /\ [][NextCaller]_vars

\* a study session on a deck whose cards and deck can be deleted meanwhile
InitStudy ==
  /\ InitFrom(SavedStudy)
  /\ InitTrap({"unsetShown"}, {"body"}, FALSE)
  /\ InitGrid(FALSE)

NextStudy ==
  \/ DoEnterStudyMode
  \/ DoStudyModeNext
  \/ DoStudyModePrevious
  \/ DoExitStudyMode
  \/ StudyKeyDown
  \/ ClickStudyCard
  \/ DoDeleteCard
  \/ DoDeleteDeck

SpecStudy == InitStudy /\ [][NextStudy]_vars

\* the modal dialog and its focus trap
InitModal ==
  /\ InitFrom(NoItem)
  /\ InitTrap({"unsetShown", "unsetHidden"}, {"body", "addDeckBtn"}, FALSE)
  /\ InitGrid(FALSE)

NextModal ==
  \/ DoOpen
  \/ DoClose
  \/ DoRestoreFocus
  \/ DoKeyDown
  \/ DoContentChange

SpecModal == InitModal /\ [][NextModal]_vars

\* the modal opened, closed and reopened while restorations are pending, its
\* key handler reached by the document's listener or called directly
InitModalKeys ==
  /\ InitFrom(NoItem)
  /\ InitTrap({"unsetShown", "unsetHidden"}, {"body", "addDeckBtn"}, TRUE)
  /\ InitGrid(FALSE)

NextModalKeys ==
  \/ DoOpen
  \/ DoClose
  \/ DoRestoreFocus
  \/ DoKeyDown
  \/ DoHandleKeyDown

SpecModalKeys == InitModalKeys /\ [][NextModalKeys]_vars

\* the storage module on its own, over whatever the key holds at start-up
InitStorage ==
  /\ \E item \in StoredPayloads : InitFrom(item)
  /\ InitTrap({"unsetShown"}, {"body"}, FALSE)
  /\ InitGrid(FALSE)

NextStorage ==
  \/ DoLoadState
  \/ DoSaveState
  \/ DoClearState
  \/ StorageChanges

SpecStorage == InitStorage /\ [][NextStorage]_vars

\* start-up over what the key holds, then decks are created
InitSeed ==
  /\ \E item \in SeedPayloads : InitFrom(item)
  /\ InitTrap({"unsetShown"}, {"body"}, FALSE)
  /\ InitGrid(FALSE)

NextSeed ==
  \/ DoCreateDeck
  \/ DoSubscribe
  \/ DoUnsubscribe

SpecSeed == InitSeed /\ [][NextSeed]_vars

\* loads of a key that other versions of the application write as well
NextForeign ==
  \/ DoLoadState
  \/ OtherVersionWrites

SpecForeign == InitStorage /\ [][NextForeign]_vars

\* a caller that loads the stored snapshot, changes what it got, and loads again
InitLoad ==
  /\ \E item \in StoredPayloads : InitFrom(item)
  /\ InitTrap({"unsetShown"}, {"body"}, FALSE)
  /\ InitGrid(FALSE)

NextLoad ==
  \/ DoLoadSnapshot
  \/ CallerMutatesSnapshot

SpecLoad == InitLoad /\ [][NextLoad]_vars

\* the handlers of the modal and of the study session, statement by statement
InitSteps ==
  /\ InitFrom(SavedStudy)
  /\ InitTrap({"unsetShown", "unsetHidden"}, {"body", "addDeckBtn"}, FALSE)
  /\ InitGrid(FALSE)

NextSteps ==
  \/ BeginHandler
  \/ RunStatement
  \/ EnterBetweenHandlers
  \/ RestoreBetweenHandlers
  \/ KeyBetweenHandlers

SpecSteps == InitSteps /\ [][NextSteps]_vars

\* the two consumers of the document's keydown events side by side: study
\* sessions entered and left while the modal is opened and closed
InitOwners ==
  /\ InitFrom(SavedStudy)
  /\ InitTrap({"unsetShown"}, {"body", "addDeckBtn"}, FALSE)
  /\ InitGrid(FALSE)

NextOwners ==
  \/ DoEnterStudyMode
  \/ DoExitStudyMode
  \/ DoOpen
  \/ DoClose
  \/ DoRestoreFocus

SpecOwners == InitOwners /\ [][NextOwners]_vars

\* the card grid: deck buttons, card clicks and the search field
SavedGrid ==
  [kind |-> "state", version |-> StorageVersion, decksType |-> "array",
   decks |-> <<[id |-> 1, name |-> <<"a">>,
                cards |-> <<[id |-> <<0, 1>>, front |-> <<"a">>, back |-> <<"b">>],
                            [id |-> <<0, 2>>, front |-> <<"b">>, back |-> <<"b">>]>>],
               [id |-> 2, name |-> <<"b">>,
                cards |-> <<[id |-> <<0, 3>>, front |-> <<"a">>, back |-> <<"a">>]>>]>>,
   selType |-> "int", selectedDeckId |-> 1, searchQuery |-> <<>>,
   savedAt |-> 0, padding |-> 0]

InitGridSpec ==
  /\ InitFrom(SavedGrid)
  /\ InitTrap({"unsetShown"}, {"body"}, FALSE)
  /\ InitGrid(TRUE)

NextGrid ==
  \/ UISelectDeck
  \/ ClickCardBody
  \/ ClickCardDelete
  \/ PerformSearch
  \/ GridSearchTimerFires
  \/ DoElapse

SpecGrid == InitGridSpec /\ [][NextGrid]_vars

\* the debounced search on its own
InitSearch ==
  /\ InitFrom(NoItem)
  /\ InitTrap({"unsetShown"}, {"body"}, FALSE)
  /\ InitGrid(FALSE)

NextSearch ==
  \/ DoSearch
  \/ DoSearchTimerFires
  \/ DoElapse

SpecSearch == InitSearch /\ [][NextSearch]_vars


(***************************************************************************)
(* Properties                                                              *)
(***************************************************************************)
Mutations == {"createDeck", "updateDeck", "deleteDeck", "selectDeck",
              "addCard", "deleteCard", "updateCard"}

EventKindOf(op) ==
  CASE op = "createDeck" -> "deckCreated"
    [] op = "updateDeck" -> "deckUpdated"
    [] op = "deleteDeck" -> "deckDeleted"
    [] op = "selectDeck" -> "deckSelected"
    [] op = "addCard" -> "cardAdded"
    [] op = "deleteCard" -> "cardDeleted"
    [] op = "updateCard" -> "cardUpdated"

\* the operation got past its validation and published its event
Published == lastOp.op \in Mutations /\ lastOp.result \in {"ok", "observerThrew"}

\* C1: a mutating operation that returns to its caller has delivered, by
\* then, one event of its kind per subscription, in subscription order
C1_OneEventPerSubscriberInOrder ==
  (lastOp.op \in Mutations /\ lastOp.result = "ok") =>
    /\ Len(lastOp.events) = Len(observers)
    /\ \A i \in DOMAIN lastOp.events :
         /\ lastOp.events[i].to = observers[i]
         /\ lastOp.events[i].kind = EventKindOf(lastOp.op)

C1_Witness ==
  /\ lastOp.op = "updateCard"
  /\ lastOp.result = "ok"
  /\ observers = <<"ui", "obsA", "obsA">>
  /\ Len(lastOp.events) = 3

\* C2: a callback that throws during dispatch neither keeps the callbacks
\* subscribed after it from being called nor the operation from returning
C2_ThrowingCallbackIsolated ==
  Published =>
    /\ Len(lastOp.events) = Len(observers)
    /\ lastOp.result = "ok"

\* C3: the selection is null or the id of a deck of the registry, in the
\* state at the return of every operation and in the state the subscribers
\* see; while deckDeleted of D is delivered D is gone, not selected, and is
\* the payload; deleting the selected deck leaves the selection null
C3_SelectionNamesAPresentDeck ==
  /\ selectedDeckId = NULL \/ selectedDeckId \in DeckIds(decks)
  /\ lastOp.events # <<>> => (lastOp.sel = NULL \/ lastOp.sel \in lastOp.ids)
  /\ (lastOp.op = "deleteDeck" /\ Published) =>
       /\ lastOp.sel # lastOp.arg
       /\ lastOp.arg \notin lastOp.ids
       /\ \A i \in DOMAIN lastOp.events :
            /\ lastOp.events[i].deck.id = lastOp.arg
            /\ \A k \in DOMAIN decks : decks[k].obj # lastOp.events[i].deck.obj
       /\ lastOp.hadSel => (selectedDeckId = NULL /\ lastOp.sel = NULL)

C3_Witness ==
  /\ lastOp.op = "deleteDeck"
  /\ lastOp.hadSel
  /\ Len(lastOp.events) >= 2
  /\ decks # <<>>

\* C4: the ids createDeck returns are strictly increasing in creation order
\* (so none is returned twice, whatever was deleted in between), and no two
\* decks of the registry share an id
C4_DeckIdsNeverReused ==
  /\ \A i, j \in DOMAIN createdIds : i < j => createdIds[i] < createdIds[j]
  /\ \A i, j \in DOMAIN decks : i # j => decks[i].id # decks[j].id

C4_Witness ==
  /\ Len(createdIds) >= 2
  /\ createdIds[1] \notin DeckIds(decks)
  /\ createdIds[2] \in DeckIds(decks)

\* C5 (as claimed): whatever a caller does to the result of getAll(), to the
\* sequence or to a deck object in it, the registry reports the same state
C5_GetAllIsDeepCopy ==
  [][lastOp'.op \in {"callerArray", "callerDeck"} =>
       PlainDecks(decks') = PlainDecks(decks)]_vars

\* C5 (amended): what a caller does to the sequence getAll() returned
\* (adding, removing, reordering its elements) leaves the registry as it was
C5_GetAllCopiesTheSequence ==
  [][lastOp'.op = "callerArray" => PlainDecks(decks') = PlainDecks(decks)]_vars

C5_Witness ==
  /\ lastOp.op = "callerArray"
  /\ Len(decks) = 2
  /\ callerView.items # [i \in DOMAIN decks |-> decks[i].obj]

\* C6: a call with an empty name fails with ValidationError and a call with
\* an id of no deck or card fails with NotFoundError, and publishes nothing
C6_InvalidCallFails ==
  /\ lastOp.invalid = "name" => lastOp.result = "ValidationError"
  /\ lastOp.invalid = "id" => lastOp.result = "NotFoundError"
  /\ lastOp.invalid # "none" => lastOp.events = <<>>

\* C7: while a study session is active its index is an index of the deck
C7_StudyIndexInRange ==
  studyMode.active =>
    /\ HasDeck(decks, studyMode.deckId)
    /\ studyMode.currentIndex >= 0
    /\ studyMode.currentIndex < Len(GetDeckById(decks, studyMode.deckId).cards)

\* C8: next then previous, and previous then next, from an index of the deck
\* end on that index; on a deck of one card either of them ends on 0
C8_NextPreviousRoundTrip ==
  /\ (/\ Len(navHist) = 2
      /\ navHist[1].op # navHist[2].op
      /\ navHist[1].n = navHist[2].n
      /\ navHist[1].from \in 0..(navHist[1].n - 1))
       => navHist[2].to = navHist[1].from
  /\ \A k \in DOMAIN navHist : navHist[k].n = 1 => navHist[k].to = 0

C8_Witness ==
  /\ Len(navHist) = 2
  /\ navHist[1].op = "prev"
  /\ navHist[2].op = "next"
  /\ navHist[1].n = 3
  /\ navHist[1].from = 0
  /\ navHist[1].to = 2
  /\ navHist[2].to = 0

\* C9: a Tab or Shift+Tab pressed while the trap is active leaves the focus
\* on an element of the contained set
C9_TabStaysInModal ==
  (lastKey.key = "Tab" /\ lastKey.via = "listener" /\ lastKey.trapActive
     /\ lastKey.set # <<>>) =>
    lastKey.to \in Range(lastKey.set)

IsEmptyDefault(v) ==
  /\ v.kind = "state"
  /\ v.version = StorageVersion
  /\ v.decksType = "array"
  /\ v.decks = <<>>
  /\ v.selType = "null"
  /\ v.selectedDeckId = NULL
  /\ v.searchQuery = <<>>

\* C11: loadState() never raises, and when the storage is unavailable, the
\* stored text is not JSON, or the stored value fails the validation, it
\* returns the empty default snapshot
C11_LoadFailsSoft ==
  lastLoad.done =>
    /\ ~lastLoad.raised
    /\ (\/ ~IsLocalStorageAvailable(lastLoad.mode)
        \/ lastLoad.item.kind \in {"garbage", "scalar"}
        \/ (lastLoad.item.kind = "state" /\ lastLoad.item.decksType # "array")
        \/ (lastLoad.item.kind = "state" /\ lastLoad.item.selType = "string"))
         => IsEmptyDefault(lastLoad.value)

\* a load over a stored value whose migration throws inside loadState()
C11_Witness ==
  /\ lastLoad.done
  /\ lastLoad.mode = "ok"
  /\ lastLoad.item = OldNullDeck
  /\ ~lastLoad.raised
  /\ IsEmptyDefault(lastLoad.value)

\* C12: after a mutation whose event the view handled, with the storage
\* working, the stored snapshot holds the decks and the selection of the
\* registry
C12_SlotFollowsRegistry ==
  (/\ lastOp.op \in Mutations
   /\ \E i \in DOMAIN lastOp.events : lastOp.events[i].to = "ui"
   /\ storageMode = "ok")
    => /\ slot.kind = "state"
       /\ slot.decks = PlainDecks(decks)
       /\ slot.selectedDeckId = selectedDeckId

C12_Witness ==
  /\ lastOp.op = "updateCard"
  /\ lastOp.result = "ok"
  /\ slot.kind = "state"
  /\ slot.decks = PlainDecks(decks)
  /\ \E i \in DOMAIN decks : \E c \in DOMAIN decks[i].cards :
       decks[i].cards[c].front = <<"r">>

\* C13: saveState() never raises; it returns true only if the slot then
\* holds that snapshot stamped with the version and the time, and nothing of
\* what was stored before; it returns false when the storage is unavailable,
\* the payload is over the ceiling, or the storage reports its quota exceeded
C13_SaveTrueOnlyOnWrite ==
  lastSave.done =>
    /\ ~lastSave.raised
    /\ lastSave.ret =>
         /\ lastSave.after.kind = "state"
         /\ lastSave.after.decks = lastSave.state.decks
         /\ lastSave.after.selectedDeckId = lastSave.state.selectedDeckId
         /\ lastSave.after.searchQuery = lastSave.state.searchQuery
         /\ lastSave.after.version = StorageVersion
         /\ lastSave.after.savedAt = lastSave.t
    /\ (\/ lastSave.mode \in {"unavailable", "quota"}
        \/ lastSave.state.padding >= SizeCeiling) => ~lastSave.ret

\* a successful save over a different snapshot stored before
C13_Witness ==
  /\ lastSave.done
  /\ lastSave.ret
  /\ lastSave.before.kind = "state"
  /\ lastSave.before.decks # lastSave.state.decks
  /\ slot = lastSave.after
  /\ slot.decks = lastSave.state.decks
  /\ slot.searchQuery = lastSave.state.searchQuery

\* C14: a card added to a deck never gets an id that a card added to that
\* deck before had, whether that card is still there or was deleted
C14_CardIdsNeverRepeat ==
  [][(lastOp'.op = "addCard" /\ lastOp'.result \in {"ok", "observerThrew"})
       => LET cs == GetDeckById(decks', lastOp'.arg).cards
          IN <<lastOp'.arg, cs[Len(cs)].id>> \notin addedCards]_vars

\* the invocations of the callback of call cb
DeliveriesOf(cb) == {k \in DOMAIN searchLog : searchLog[k].cb = cb}

\* C15: the callback of a call that was followed by another call while its
\* timer was pending is never invoked; once no timer is pending the callback
\* of the last call has been invoked exactly once, with the result for the
\* cards and the query of that call; no callback is invoked twice
C15_OnlyLastCallOfBurstDelivers ==
  /\ \A cb \in DOMAIN searchCalls : \A later \in DOMAIN searchCalls :
       (later > cb /\ cb \in searchCalls[later].pending) => DeliveriesOf(cb) = {}
  /\ \A cb \in DOMAIN searchCalls : Cardinality(DeliveriesOf(cb)) <= 1
  /\ (searchTimers = {} /\ searchCalls # <<>>) =>
       Cardinality(DeliveriesOf(Len(searchCalls))) = 1
  /\ \A k \in DOMAIN searchLog :
       LET call == searchCalls[searchLog[k].cb]
       IN /\ searchLog[k].cards = SearchResult(call.cards, call.query).cards
          /\ searchLog[k].count = SearchResult(call.cards, call.query).count

\* a burst of three calls, settled: one invocation, of the third callback
C15_Witness ==
  /\ Len(searchCalls) = 3
  /\ searchCalls[2].pending = {1}
  /\ searchCalls[3].pending = {2}
  /\ searchCalls[3].query # searchCalls[2].query
  /\ searchTimers = {}
  /\ Len(searchLog) = 1
  /\ searchLog[1].cb = 3

\* is sub the subsequence of cards, in order, of the cards that satisfy P
IsFilterOf(sub, cards, P(_)) ==
  \E pos \in [DOMAIN sub -> DOMAIN cards] :
    /\ \A i, j \in DOMAIN sub : i < j => pos[i] < pos[j]
    /\ \A i \in DOMAIN sub : sub[i] = cards[pos[i]]
    /\ \A c \in DOMAIN cards : P(cards[c]) <=> \E i \in DOMAIN sub : pos[i] = c

\* C16: for a non-blank query the cards handed to the callback are, in
\* order, the cards whose lower-cased front or back contains the lower-cased
\* query, and matchCount is their number
C16_ResultIsCaseFoldedSubstringFilter ==
  \A k \in DOMAIN searchLog :
    LET call == searchCalls[searchLog[k].cb]
    IN ~QueryIsBlank(call.query) =>
         /\ IsFilterOf(searchLog[k].cards, call.cards,
                       LAMBDA c : \/ Includes(ToLowerCase(c.front), ToLowerCase(call.query))
                                  \/ Includes(ToLowerCase(c.back), ToLowerCase(call.query)))
         /\ searchLog[k].count = Len(searchLog[k].cards)

\* C16 as the code has it: the query is lower-cased and trimmed before the
\* substring test
C16_ResultIsTrimmedCaseFoldedFilter ==
  \A k \in DOMAIN searchLog :
    LET call == searchCalls[searchLog[k].cb]
    IN ~QueryIsBlank(call.query) =>
         /\ IsFilterOf(searchLog[k].cards, call.cards,
                       LAMBDA c : \/ Includes(ToLowerCase(c.front), Trim(ToLowerCase(call.query)))
                                  \/ Includes(ToLowerCase(c.back), Trim(ToLowerCase(call.query))))
         /\ searchLog[k].count = Len(searchLog[k].cards)

\* a query with an upper-case letter and one with a trailing blank, each
\* delivering a proper, non-empty part of the cards
C16_Witness ==
  \E k \in DOMAIN searchLog :
    LET call == searchCalls[searchLog[k].cb]
    IN /\ call.query = <<"a", " ">>
       /\ call.cards = SearchCards
       /\ searchLog[k].count = 2
       /\ searchLog[k].cards = SubSeq(SearchCards, 1, 2)

\* C17: enterStudyMode on a deck without cards reports it (the alert of the
\* empty deck) and creates nothing: the study state and the key listeners
\* are as before the call
C17_EmptyDeckIsRefused ==
  [][(/\ lastStudy'.op = "enter"
      /\ HasDeck(decks, lastStudy'.deckId)
      /\ Len(GetDeckById(decks, lastStudy'.deckId).cards) = 0)
       => /\ lastStudy'.alert = "noCards"
          /\ studyMode' = studyMode
          /\ studyKeyListeners' = studyKeyListeners
          /\ studyCardDom' = studyCardDom]_vars

C17_Witness ==
  /\ lastStudy.op = "enter"
  /\ lastStudy.alert = "noCards"
  /\ HasDeck(decks, lastStudy.deckId)
  /\ Len(GetDeckById(decks, lastStudy.deckId).cards) = 0
  /\ ~studyMode.active
  /\ studyKeyListeners = 0

\* C18: exitStudyMode changes nothing when no session is active; it ends an
\* active session with the key listener and the study card gone, and its
\* summary counts the cards that were at currentIndex since enter
C18_ExitSummaryCountsCurrentCards ==
  [][lastStudy'.op = "exit" =>
       IF ~studyMode.active
       THEN /\ UNCHANGED <<studyMode, cardFlipState, studyCardDom,
                           currentCardIndex, studyKeyListeners, decks,
                           selectedDeckId>>
            /\ lastStudy'.alert = "none"
       ELSE /\ ~studyMode'.active
            /\ studyKeyListeners' = 0
            /\ ~studyCardDom'.present
            /\ lastStudy'.alert = "summary"
            /\ lastStudy'.reviewed = Cardinality(everCurrent)]_vars

\* C19: a close() that schedules a restoration leaves the focus where it
\* is (or lets it fall to the body when the focused element is hidden with
\* the modal); the restoration, when it runs, focuses the element captured
\* by the open() that this close() matched, or nothing when that element
\* cannot take focus
C19_RestoreGoesToTheMatchingTarget ==
  [][/\ Len(restoreQueue') > Len(restoreQueue)
          => activeElement' \in {activeElement, "body"}
     /\ Len(restoreQueue') < Len(restoreQueue)
          => activeElement' \in {Head(restoreQueue), activeElement}]_vars

\* C20: Escape with the trap active closes it (flag cleared, listener
\* detached, modal hidden) and cancels the default action; a key event that
\* finds the trap inactive changes nothing of the trap, and when it reaches
\* handleKeyDown it moves no focus and cancels nothing
C20_EscapeClosesInactiveIgnores ==
  [][/\ (lastKey'.via \in {"listener", "direct"} /\ lastKey'.key = "Escape"
           /\ focusTrapActive)
          => /\ ~focusTrapActive'
             /\ ~modalKeyListener'
             /\ modalDisplay' = "none"
             /\ lastKey'.prevented
     /\ (lastKey'.via \in {"listener", "direct"} /\ ~focusTrapActive)
          => /\ UNCHANGED <<focusTrapActive, modalKeyListener,
                            previouslyFocusedElement, focusableElements,
                            modalDisplay, pendingRestore, hiddenEls>>
             /\ ~lastKey'.prevented
             /\ ~lastKey'.moved
             /\ lastKey'.via = "direct" => UNCHANGED activeElement]_vars

\* Escape pressed inside the open modal
C20_Witness ==
  /\ lastKey.key = "Escape"
  /\ lastKey.via = "listener"
  /\ lastKey.trapActive
  /\ lastKey.from \in Range(ModalEls)
  /\ lastKey.prevented
  /\ ~focusTrapActive
  /\ ~modalKeyListener
  /\ modalDisplay = "none"

\* the snapshot that loadState() makes up when it reads no stored state
ReturnsDefault(mode, item) ==
  LET b == LoadStateBody(mode, item, 0)
  IN b.threw \/ b.value = GetDefaultState(0)

C22_SearchLeavesInputAlone ==
  \A k \in DOMAIN searchLog :
    LET call == searchCalls[searchLog[k].cb]
    IN /\ searchLog[k].input = call.cards
       /\ QueryIsBlank(call.query) =>
            /\ searchLog[k].cards = call.cards
            /\ searchLog[k].count = Len(call.cards)

\* a blank query and a query that selects a part of the cards, both settled
C22_Witness ==
  /\ \E k \in DOMAIN searchLog :
       LET call == searchCalls[searchLog[k].cb]
       IN /\ call.query = <<" ">>
          /\ call.cards = SearchCards
          /\ searchLog[k].cards = SearchCards
          /\ searchLog[k].count = 3
  /\ \E k \in DOMAIN searchLog :
       LET call == searchCalls[searchLog[k].cb]
       IN /\ call.query = <<"A">>
          /\ call.cards = SearchCards
          /\ Len(searchLog[k].cards) = 2
          /\ searchLog[k].input = SearchCards

\* C23: the cards container carries one click listener of
\* setupCardEventListeners however often the grid was rendered, so a click
\* on a card body inverts that card's flip state and a click on a delete
\* button asks for one deletion
C23_OneDelegatedClickListener ==
  /\ cardsClickListeners # NULL => cardsClickListeners <= 1
  /\ lastClick.kind = "body" => lastClick.flipAfter = ~lastClick.flipBefore
  /\ lastClick.kind = "delete" => lastClick.requests = 1

\* C27: while the search is active every card shown in the grid is a card of
\* the selected deck
C27_ShownResultsAreOfSelectedDeck ==
  (cardsClickListeners # NULL /\ isSearchActive) =>
    \A k \in DOMAIN shownCards :
      LET s == SelectedDeckIndex(decks, selectedDeckId)
      IN s # 0 /\ CardIndex(decks[s].cards, shownCards[k]) # 0

\* C24: an open() of the closed modal puts the focus on the first text-entry
\* field among the elements the modal has once it is shown, else on the
\* first of these elements
C24_OpenFocusesTheFirstField ==
  [][(~focusTrapActive /\ focusTrapActive') =>
       LET fe == GetFocusableElements("block", hiddenEls)
       IN fe # <<>> => activeElement' = InitialFocusTarget(fe)]_vars

\* the flip flag of a card, as the view has it
FlipFlag(flip, cardId) == MapGet(flip, cardId)

\* C25: one press of Space in an active session inverts the flip flag of
\* the current card and leaves the index and the flags of the other cards
\* as they were, wherever the focus is
C25_SpaceTogglesOnce ==
  [][(lastStudy'.op = " " /\ CurrentCardOf(studyMode, decks) # {})
       => \A c \in CurrentCardOf(studyMode, decks) :
            /\ FlipFlag(cardFlipState', c) = ~FlipFlag(cardFlipState, c)
            /\ studyMode'.currentIndex = studyMode.currentIndex
            /\ \A o \in (DOMAIN cardFlipState \cup DOMAIN cardFlipState') \ {c} :
                 FlipFlag(cardFlipState', o) = FlipFlag(cardFlipState, o)]_vars

\* C26: after next() or previous() in an active session the card that was
\* current before the call has no flip flag, and the card that is current
\* now is among the cards the session has visited
C26_LeftCardIsUnflipped ==
  [][(/\ lastStudy'.op \in {"next", "previous", "ArrowRight", "ArrowLeft"}
      /\ studyMode.active
      /\ studyKeyListeners > 0)
       => /\ \A c \in CurrentCardOf(studyMode, decks) :
               ~FlipFlag(cardFlipState', c)
          /\ CurrentCardOf(studyMode', decks') \subseteq studyMode'.cardsStudied]_vars

\* C28: a restoration that runs while the trap is active (the modal was
\* reopened before the timer of an earlier close() fired) does not move the
\* focus to an element outside the modal
C28_PendingRestoreStaysInTrap ==
  [][(pendingRestore' < pendingRestore /\ focusTrapActive /\ activeElement' # activeElement)
       => activeElement' \in Range(ModalEls) \cup {"modal"}]_vars

\* C29: the modal and the study session never have their keydown listeners
\* on the document at the same time
C29_OneKeyOwner == ~(modalKeyListener /\ studyKeyListeners > 0)

\* C30: whatever the order of enter, exit, open and close, the study session
\* has one keydown listener on the document while it is active and none
\* while it is not, and so has the modal
C30_OneListenerWhileActive ==
  /\ studyKeyListeners \in {0, 1}
  /\ studyMode.active <=> studyKeyListeners = 1
  /\ focusTrapActive <=> modalKeyListener

\* a session entered while another was active (its summary was shown), the
\* modal open at the same time
C30_Witness ==
  /\ lastStudy.op = "enter"
  /\ lastStudy.alert = "summary"
  /\ studyMode.active
  /\ studyKeyListeners = 1
  /\ focusTrapActive
  /\ modalKeyListener

\* C31: loadState() returns the empty default snapshot for every stored
\* payload other than an object whose decks is an array and whose
\* selectedDeckId is null or an integer
C31_OnlyIntegerSelectionIsLoaded ==
  (/\ lastLoad.done
   /\ ~(/\ lastLoad.item.kind = "state"
        /\ lastLoad.item.decksType = "array"
        /\ lastLoad.item.selType \in {"null", "int"}))
    => IsEmptyDefault(lastLoad.value)

\* C32: for a stored snapshot that passes the validation and whose version
\* is not the current one (missing, lower or higher), loadState() returns,
\* without raising, a snapshot of the current version in which every deck
\* has a cards sequence
C32_MigrationNormalizesEveryDeck ==
  (/\ lastLoad.done
   /\ IsValidStateStructure(lastLoad.item)
   /\ lastLoad.item.version # StorageVersion)
    => /\ ~lastLoad.raised
       /\ lastLoad.value.version = StorageVersion
       /\ \A i \in DOMAIN lastLoad.value.decks :
            HasCardsArray(lastLoad.value.decks[i])

\* C33: in an active session over a deck of n >= 1 cards, next goes to
\* (c + 1) mod n and previous to (c - 1 + n) mod n, where c is the index
\* before the call if it is an index of the deck and 0 otherwise
C33_NavigationIsModular ==
  \A k \in DOMAIN navHist :
    LET h == navHist[k]
        c == IF h.from \in 0..(h.n - 1) THEN h.from ELSE 0
    IN /\ h.n >= 1
       /\ h.op = "next" => h.to = (c + 1) % h.n
       /\ h.op = "prev" => h.to = (c - 1 + h.n) % h.n

\* a next from an index that the deletion of a card left past the end of
\* the deck, then a previous that wraps to the last card
C33_Witness ==
  /\ Len(navHist) = 2
  /\ navHist[1].op = "next"
  /\ navHist[1].n = 2
  /\ navHist[1].from = 2
  /\ navHist[1].to = 1
  /\ navHist[2].op = "prev"
  /\ navHist[2].from = 1
  /\ navHist[2].to = 0
  /\ studyMode.active

\* C34: enterStudyMode called while a session is active ends that session
\* first, whatever the target deck: after a call refused for an empty deck
\* no session is active and no key listener is attached, and after a call
\* that succeeds the only session and listener are those of the new deck
C34_EnterExitsThePreviousSession ==
  [][(/\ lastStudy'.op = "enter"
      /\ studyMode.active
      /\ HasDeck(decks, lastStudy'.deckId))
       => IF Len(GetDeckById(decks, lastStudy'.deckId).cards) = 0
          THEN /\ ~studyMode'.active
               /\ studyKeyListeners' = 0
          ELSE /\ studyMode'.active
               /\ studyMode'.deckId = lastStudy'.deckId
               /\ studyKeyListeners' = 1]_vars

\* C35: while no study session is active, studyModeNext, studyModePrevious
\* and the keys ArrowLeft, ArrowRight, Space and Escape change neither the
\* study state, nor the flip state, nor the selection, and show nothing
C35_InactiveSessionIgnoresInput ==
  [][(/\ ~studyMode.active
      /\ lastStudy'.op \in {"next", "previous", "ArrowLeft", "ArrowRight", " ", "Escape"})
       => /\ studyMode' = studyMode
          /\ studyCardDom' = studyCardDom
          /\ studyKeyListeners' = studyKeyListeners
          /\ cardFlipState' = cardFlipState
          /\ currentCardIndex' = currentCardIndex
          /\ selectedDeckId' = selectedDeckId
          /\ lastStudy'.alert = "none"]_vars

\* a next called after a session was left
C35_Witness ==
  /\ lastStudy.op = "next"
  /\ ~studyMode.active
  /\ studyMode.deckId # NULL
  /\ HasDeck(decks, studyMode.deckId)
  /\ everCurrent # {}
  /\ studyKeyListeners = 0

\* C36: between handlers the trap's flag is set exactly when its key listener
\* is attached, and a trap that handles keys has its region shown; inside
\* the handlers, open() moves the focus with the flag set and the listener
\* attached, close() hides the region with the flag cleared and the listener
\* detached, and exitStudyMode() restores the container with no study key
\* listener left on the document
C36_DeactivateBeforeHideActivateBeforeFocus ==
  /\ pc = Idle => (focusTrapActive <=> modalKeyListener)
  /\ (pc = Idle /\ focusTrapActive) => modalDisplay = "block"
  /\ (pc.handler = "open" /\ NextStatement = "focus")
       => (focusTrapActive /\ modalKeyListener)
  /\ (pc.handler = "close" /\ NextStatement = "hide")
       => (~focusTrapActive /\ ~modalKeyListener)
  /\ (pc.handler = "exitStudy" /\ NextStatement = "restoreUI")
       => studyKeyListeners = 0

\* close() about to hide the open modal, after a study session was left
C36_Witness ==
  /\ pc.handler = "close"
  /\ NextStatement = "hide"
  /\ modalDisplay = "block"
  /\ activeElement = "input"
  /\ ~focusTrapActive
  /\ ~modalKeyListener
  /\ lastStudy.op = "exit"
  /\ studyKeyListeners = 0

\* C37: a Tab or Shift+Tab handled by the active trap is decided on the
\* focusable and visible elements the modal has at that key press: from the
\* last of them Tab goes to the first, from the first Shift+Tab goes to the
\* last, elsewhere the key is left to the browser; when there is none the
\* default action is cancelled and the focus stays where it is
C37_TabUsesTheCurrentElements ==
  [][(/\ lastKey'.key = "Tab"
      /\ lastKey'.via = "listener"
      /\ lastKey'.listener
      /\ lastKey'.trapActive)
       => LET cur == GetFocusableElements(modalDisplay, hiddenEls)
              edge == IF lastKey'.shift THEN cur[1] ELSE cur[Len(cur)]
              wrap == IF lastKey'.shift THEN cur[Len(cur)] ELSE cur[1]
          IN /\ focusableElements' = cur
             /\ cur = <<>> => (lastKey'.prevented /\ activeElement' = activeElement)
             /\ (cur # <<>> /\ activeElement = edge)
                  => (lastKey'.prevented /\ activeElement' = wrap)
             /\ (cur # <<>> /\ activeElement # edge) => ~lastKey'.prevented]_vars

\* a Tab that wrapped from the last to the first of the two elements left
\* after the others were hidden while the modal was open
C37_Witness ==
  /\ lastKey.key = "Tab"
  /\ lastKey.via = "listener"
  /\ lastKey.trapActive
  /\ ~lastKey.shift
  /\ Cardinality(hiddenEls) = 2
  /\ focusableElements = GetFocusableElements(modalDisplay, hiddenEls)
  /\ Len(focusableElements) = 2
  /\ lastKey.from = focusableElements[2]
  /\ lastKey.from # "confirm"
  /\ activeElement = focusableElements[1]

\* C38: a saveState() that fails on the storage's quota leaves the key
\* empty, so that a load of it gives the empty default snapshot; one that
\* fails because the storage is unavailable or the text is over the size
\* ceiling leaves the key as it was; a failed save changes neither the decks
\* nor the selection of the registry
C38_FailedSaveClearsOnlyOnQuota ==
  [][(lastSave' # lastSave /\ lastSave'.done /\ ~lastSave'.ret)
       => /\ slot' = lastSave'.after
          /\ (/\ lastSave'.mode = "quota"
              /\ lastSave'.state.selType # "string"
              /\ lastSave'.state.padding < SizeCeiling)
               => /\ slot' = NoItem
                  /\ \A mode \in StorageModes, t \in 0..MaxClock :
                       IsEmptyDefault(LoadState(mode, slot', t).value)
          /\ (\/ lastSave'.mode = "unavailable"
              \/ lastSave'.state.padding >= SizeCeiling)
               => slot' = slot
          /\ decks' = decks
          /\ selectedDeckId' = selectedDeckId]_vars

\* a save refused for the quota over the snapshot found at start-up (one no
\* save writes, so the key was not emptied before), then a load of the
\* emptied key
C38_Witness ==
  /\ lastSave.done
  /\ ~lastSave.ret
  /\ lastSave.mode = "quota"
  /\ lastSave.before = FloatSelection
  /\ lastSave.after = NoItem
  /\ slot = NoItem
  /\ lastLoad.done
  /\ lastLoad.item = NoItem
  /\ IsEmptyDefault(lastLoad.value)
  /\ decks # <<>>

\* C39: the first deck created after start-up gets an id greater than every
\* integer deck id of the snapshot that start-up loaded (ids that are not
\* integers do not count), and the id 1 when that snapshot has no integer id
C39_SeedContinuesPastLoadedIds ==
  [][(lastOp.op \in {"none", "createDeck"} /\ createdIds = <<>> /\ createdIds' # <<>>)
       => LET snap == LoadState("ok", slot, 0).value
              ints == {snap.decks[i].id :
                         i \in {j \in DOMAIN snap.decks : ~IsNullDeck(snap.decks[j])}}
                        \ {NULL}
          IN /\ \A id \in ints : createdIds'[1] > id
             /\ ints = {} => createdIds'[1] = 1]_vars

(***************************************************************************)
(* The flip-state map under the view's own operations                      *)
(***************************************************************************)
\* addCard(): the prompts answered, the card goes to the selected deck
UIAddCard ==
  /\ GridRoom
  /\ selectedDeckId # NULL
  /\ AddCardToDeck(selectedDeckId, <<"q">>, <<"q">>)
  /\ RegistryFrameBase
  /\ GridFollows(FALSE)
  /\ lastClick' = NoClick
  /\ UNCHANGED pc

\* a click on the edit button of a shown card: editCard(cardId)
UIEditCard ==
  /\ GridRoom
  /\ \E k \in DOMAIN shownCards, f \in PromptInputs, b \in {Undefined, <<"q">>} :
       EditCard(shownCards[k], f, b)
  /\ RegistryFrameBase
  /\ GridFollows(FALSE)
  /\ lastClick' = NoClick
  /\ UNCHANGED pc

NextFlip ==
  \/ UISelectDeck
  \/ ClickCardBody
  \/ ClickCardDelete
  \/ UIAddCard
  \/ UIEditCard

SpecFlip == InitGridSpec /\ [][NextFlip]_vars

\* the event the view handled in the step, "none" when it handled none
HandledEvent(op) ==
  LET uiEvents == SelectSeq(op.events, LAMBDA e : e.to = "ui")
  IN IF op.result = "ok" /\ uiEvents # <<>> THEN uiEvents[1]
     ELSE [to |-> "ui", kind |-> "none", deck |-> NullDeck, card |-> NoCard]

\* C40: once deckSelected has been handled the flip-state map is empty; once
\* cardDeleted has been handled the map has no entry for the deleted card;
\* a card deletion, addition or update leaves the flags of the other cards
\* of the same deck as they were
C40_FlipStateFollowsDeckEvents ==
  [][LET e == HandledEvent(lastOp')
     IN /\ e.kind = "deckSelected" => cardFlipState' = EmptyMap
        /\ e.kind = "cardDeleted" => e.card \notin DOMAIN cardFlipState'
        /\ e.kind \in {"cardDeleted", "cardAdded", "cardUpdated"} =>
             \A c \in DOMAIN e.deck.cards :
               e.deck.cards[c].id # e.card =>
                 MapGet(cardFlipState', e.deck.cards[c].id)
                   = MapGet(cardFlipState, e.deck.cards[c].id)]_vars

\* a card was deleted and handled while another card of its deck shows its back
C40_Witness ==
  LET e == HandledEvent(lastOp)
  IN /\ e.kind = "cardDeleted"
     /\ lastClick.kind = "delete"
     /\ \E c \in DOMAIN e.deck.cards :
          /\ e.deck.cards[c].id # e.card
          /\ MapGet(cardFlipState, e.deck.cards[c].id)
====
